---- MODULE Spec2Model ----
(***************************************************************************)
(* Model of the SLIP39 dot-pattern converter library                       *)
(* (converter/lib/DotPattern.js: classes DotPattern and Validator).        *)
(*                                                                         *)
(* JavaScript strings are modelled as sequences of UTF-16 code units, each *)
(* code unit written as a one-character TLA+ string.  Error messages are   *)
(* TLA+ strings built as the template literals of the source build them.   *)
(* JavaScript values are records [t, k, n, s]: t is the typeof tag (with   *)
(* "null" kept apart from "object"), k/n describe a number (k = "int": the *)
(* integer n; k = "frac": the non-integer n + 1/2; k = "nan": NaN), a      *)
(* boolean is n = 0/1, and s is the content of a string.                   *)
(***************************************************************************)
EXTENDS Integers, Sequences, FiniteSets, TLC

VARIABLES
  arg,      \* the caller's input: [fn |-> "new" or "fromDots", v |-> the argument]
  inst,     \* the DotPattern object the caller holds: its fields, or Unallocated
  ret,      \* the last call: [op, arg, value returned, from, src]; from names the
            \* call whose return value was passed as arg ("input" if the caller's
            \* own input was) and src is the index of the object that call was on
  thrown,   \* message of the Error the last call threw, or NoError
  binary,   \* the argument of the pending Validator.validateBinary call
  result,   \* the object Validator.validateBinary returned, or NoResult
  converter,  \* the Converter object the caller holds: its fields, or NoConverter
  input,      \* the caller's input: [wordlist, fn |-> the method to call, v |-> its argument]
  output,     \* the last Converter call: [op, arg, thrown, value returned]
  app         \* the Application object and the page it drives, or NoApp

vars == <<arg, inst, ret, thrown, binary, result, converter, input, output, app>>

----------------------------------------------------------------------------
(* Bounds of the model *)

\* integers handed to the constructor range over 1 - Margin .. 1024 + Margin
Margin == 3
\* longest run of characters spliced into a 12-character input string
MaxSplice == 2
\* longest list of words handed to convertWithValidation
MaxWords == 3
MaxCallWords == 2
LongCount == 21

----------------------------------------------------------------------------
(* JavaScript values *)

JSNum(n)  == [t |-> "number",    k |-> "int",  n |-> n, s |-> <<>>]
JSFrac(n) == [t |-> "number",    k |-> "frac", n |-> n, s |-> <<>>]
JSNaN     == [t |-> "number",    k |-> "nan",  n |-> 0, s |-> <<>>]
JSStr(s)  == [t |-> "string",    k |-> "",     n |-> 0, s |-> s]
JSBool(b) == [t |-> "boolean",   k |-> "",     n |-> IF b THEN 1 ELSE 0, s |-> <<>>]
JSNull    == [t |-> "null",      k |-> "",     n |-> 0, s |-> <<>>]
JSUndef   == [t |-> "undefined", k |-> "",     n |-> 0, s |-> <<>>]
JSObject  == [t |-> "object",    k |-> "",     n |-> 0, s |-> <<>>]
\* a built-in function, s its name
JSFunction(name) == [t |-> "function", k |-> "", n |-> 0, s |-> name]

NoError == ""

\* the code units the model's strings are made of
FILLED == "●"
EMPTY  == "○"
Whitespace == {" ", "\t", "\n"}
Digits == {"0", "1", "2", "3", "4", "5", "6", "7", "8", "9"}
DigitValue == [c \in Digits |->
  CASE c = "0" -> 0 [] c = "1" -> 1 [] c = "2" -> 2 [] c = "3" -> 3 [] c = "4" -> 4
    [] c = "5" -> 5 [] c = "6" -> 6 [] c = "7" -> 7 [] c = "8" -> 8 [] c = "9" -> 9]

\* String.prototype.trim, as ToNumber applies it to a string
RECURSIVE TrimStart(_)
TrimStart(s) ==
  IF s # <<>> /\ Head(s) \in Whitespace THEN TrimStart(Tail(s)) ELSE s

RECURSIVE TrimEnd(_)
TrimEnd(s) ==
  IF s # <<>> /\ s[Len(s)] \in Whitespace THEN TrimEnd(SubSeq(s, 1, Len(s) - 1)) ELSE s

Trim(s) == TrimEnd(TrimStart(s))

RECURSIVE DecimalValue(_)
DecimalValue(s) ==
  IF s = <<>> THEN 0
  ELSE 10 * DecimalValue(SubSeq(s, 1, Len(s) - 1)) + DigitValue[s[Len(s)]]

\* ToNumber(v), the conversion the relational operators < and > apply to a
\* non-number operand (strings here hold digits, letters and whitespace only)
ToNumber(v) ==
  CASE v.t = "number"    -> v
    [] v.t = "undefined" -> JSNaN
    [] v.t = "null"      -> JSNum(0)
    [] v.t = "boolean"   -> JSNum(v.n)
    [] v.t = "string"    ->
         LET s == Trim(v.s) IN
         IF \A i \in 1..Len(s) : s[i] \in Digits THEN JSNum(DecimalValue(s)) ELSE JSNaN
    [] v.t = "object"    -> JSNaN
    [] v.t = "function"  -> JSNaN

\* a < b and a > b of JavaScript with b an integer literal: false when the
\* left operand converts to NaN; n + 1/2 < b iff n < b, n + 1/2 > b iff n >= b
JSLess(a, b) ==
  LET x == ToNumber(a) IN
  CASE x.k = "nan"  -> FALSE
    [] x.k = "int"  -> x.n < b
    [] x.k = "frac" -> x.n < b

JSGreater(a, b) ==
  LET x == ToNumber(a) IN
  CASE x.k = "nan"  -> FALSE
    [] x.k = "int"  -> x.n > b
    [] x.k = "frac" -> x.n >= b

\* (mutant) the digits in the reverse order, least significant first
RECURSIVE ToBase2Reversed(_)
ToBase2Reversed(n) ==
  IF n < 2 THEN <<IF n = 1 THEN "1" ELSE "0">>
  ELSE <<IF n % 2 = 1 THEN "1" ELSE "0">> \o ToBase2Reversed(n \div 2)

\* Number.prototype.toString(2) of a non-negative integer
RECURSIVE ToBase2(_)
ToBase2(n) ==
  IF n < 2 THEN <<IF n = 1 THEN "1" ELSE "0">>
  ELSE ToBase2(n \div 2) \o <<IF n % 2 = 1 THEN "1" ELSE "0">>

\* a sequence of code units as one message string
RECURSIVE StringOf(_)
StringOf(s) == IF s = <<>> THEN "" ELSE Head(s) \o StringOf(Tail(s))

\* the rendering a template literal gives a value: `${v}`
TemplateString(v) ==
  CASE v.t = "number" /\ v.k = "int"  -> ToString(v.n)
    [] v.t = "number" /\ v.k = "nan"  -> "NaN"
    [] v.t = "number" /\ v.k = "frac" ->
         IF v.n >= 0 THEN ToString(v.n) \o ".5" ELSE "-" \o ToString(-v.n - 1) \o ".5"
    [] v.t = "undefined" -> "undefined"
    [] v.t = "null"      -> "null"
    [] v.t = "boolean"   -> IF v.n = 1 THEN "true" ELSE "false"
    [] v.t = "string"    -> StringOf(v.s)
    [] v.t = "object"    -> "[object Object]"
    [] v.t = "function"  -> "function " \o StringOf(v.s) \o "() { [native code] }"

\* parseInt(s, radix) for radix <= 10 on unsigned input: leading whitespace is
\* skipped, the longest prefix of digits of the radix is decoded, NaN if none
RECURSIVE DigitPrefix(_, _)
DigitPrefix(s, radix) ==
  IF s # <<>> /\ Head(s) \in Digits /\ DigitValue[Head(s)] < radix
  THEN <<Head(s)>> \o DigitPrefix(Tail(s), radix)
  ELSE <<>>

RECURSIVE RadixValue(_, _)
RadixValue(s, radix) ==
  IF s = <<>> THEN 0
  ELSE radix * RadixValue(SubSeq(s, 1, Len(s) - 1), radix) + DigitValue[s[Len(s)]]

ParseInt(s, radix) ==
  LET digits == DigitPrefix(TrimStart(s), radix) IN
  IF digits = <<>> THEN JSNaN ELSE JSNum(RadixValue(digits, radix))

\* (mutant) padEnd in place of padStart
RECURSIVE PadEnd(_, _, _)
PadEnd(s, targetLength, pad) ==
  IF Len(s) >= targetLength THEN s ELSE PadEnd(s \o <<pad>>, targetLength, pad)

\* String.prototype.padStart(targetLength, padString) with a one-unit pad
RECURSIVE PadStart(_, _, _)
PadStart(s, targetLength, pad) ==
  IF Len(s) >= targetLength THEN s ELSE PadStart(<<pad>> \o s, targetLength, pad)

\* String.prototype.substring(start, end) for 0 <= start <= end
Substring(s, start, end) ==
  SubSeq(s, (IF start > Len(s) THEN Len(s) ELSE start) + 1, IF end > Len(s) THEN Len(s) ELSE end)

JSArray(elems) == [t |-> "array", k |-> "", n |-> 0, s |-> elems]

----------------------------------------------------------------------------
(* class DotPattern *)

\* no object: every property reads as undefined
Unallocated ==
  [live |-> FALSE, index |-> JSUndef, _binary |-> JSUndef, _dots |-> JSUndef,
   _columns |-> JSUndef]

\* (mutant) the upper bound tested with >= : index < 1 || index >= 1024
DotPatternExclusiveBound(index) ==
  IF JSLess(index, 1) \/ JSGreater(index, 1023)
  THEN [thrown |-> "Index " \o TemplateString(index) \o " out of SLIP39 range (1-1024)",
        this |-> Unallocated]
  ELSE [thrown |-> NoError,
        this |-> [live |-> TRUE, index |-> index, _binary |-> JSNull, _dots |-> JSNull,
                  _columns |-> JSNull]]

\* constructor(index): what the call throws and the object it leaves
DotPattern(index) ==
  IF JSLess(index, 1) \/ JSGreater(index, 1024)
  THEN [thrown |-> "Index " \o TemplateString(index) \o " out of SLIP39 range (1-1024)",
        this |-> Unallocated]
  ELSE [thrown |-> NoError,
        this |-> [live |-> TRUE, index |-> index, _binary |-> JSNull, _dots |-> JSNull,
                  _columns |-> JSNull]]

\* the callback of fromDots' map, applied left to right; the first throw ends it
RECURSIVE MapDots(_)
MapDots(dots) ==
  IF dots = <<>> THEN [thrown |-> NoError, s |-> <<>>]
  ELSE LET dot == Head(dots) IN
       IF dot \notin {FILLED, EMPTY}
       THEN [thrown |-> "Invalid dot character: " \o dot \o ". Use ● or ○", s |-> <<>>]
       ELSE LET rest == MapDots(Tail(dots)) IN
            IF rest.thrown # NoError THEN rest
            ELSE [thrown |-> NoError,
                  s |-> <<IF dot = FILLED THEN "1" ELSE "0">> \o rest.s]

\* (mutant) the whitespace is left in
StripNothing(s) == s

\* dotString.replace(/\s/g, '')
StripWhitespace(s) == SelectSeq(s, LAMBDA c : c \notin Whitespace)

\* (mutant) the object is built from the decoded value without the constructor's
\* range check
fromDotsUnchecked(dotString) ==
  IF dotString.t # "string"
  THEN [thrown |-> "TypeError: dotString.replace is not a function", this |-> Unallocated]
  ELSE
    LET cleanDots == StripWhitespace(dotString.s) IN
    IF Len(cleanDots) # 12
    THEN [thrown |-> "Dot string must be 12 characters long, got " \o ToString(Len(cleanDots)),
          this |-> Unallocated]
    ELSE LET mapped == MapDots(cleanDots) IN
         IF mapped.thrown # NoError
         THEN [thrown |-> mapped.thrown, this |-> Unallocated]
         ELSE [thrown |-> NoError,
               this |-> [live |-> TRUE, index |-> ParseInt(mapped.s, 2), _binary |-> JSNull,
                         _dots |-> JSNull, _columns |-> JSNull]]

\* (mutant) the length of dotString is tested, not the length of cleanDots
fromDotsRawLength(dotString) ==
  IF dotString.t # "string"
  THEN [thrown |-> "TypeError: dotString.replace is not a function", this |-> Unallocated]
  ELSE
    LET cleanDots == StripWhitespace(dotString.s) IN
    IF Len(dotString.s) # 12
    THEN [thrown |-> "Dot string must be 12 characters long, got " \o ToString(Len(dotString.s)),
          this |-> Unallocated]
    ELSE LET mapped == MapDots(cleanDots) IN
         IF mapped.thrown # NoError
         THEN [thrown |-> mapped.thrown, this |-> Unallocated]
         ELSE DotPattern(ParseInt(mapped.s, 2))

\* static fromDots(dotString)
fromDots(dotString) ==
  IF dotString.t # "string"
  THEN [thrown |-> IF dotString.t \in {"undefined", "null"}
                   THEN "TypeError: Cannot read properties of " \o dotString.t
                          \o " (reading 'replace')"
                   ELSE "TypeError: dotString.replace is not a function",
        this |-> Unallocated]
  ELSE
    LET cleanDots == StripWhitespace(dotString.s) IN
    IF Len(cleanDots) # 12
    THEN [thrown |-> "Dot string must be 12 characters long, got " \o ToString(Len(cleanDots)),
          this |-> Unallocated]
    ELSE LET mapped == MapDots(cleanDots) IN
         IF mapped.thrown # NoError
         THEN [thrown |-> mapped.thrown, this |-> Unallocated]
         ELSE DotPattern(ParseInt(mapped.s, 2))

\* this.index.toString(2): Number.prototype.toString(2) of a number, the
\* toString of the value's own type otherwise
IndexToString2(index) ==
  CASE index.t = "number" /\ index.k = "int" ->
         [thrown |-> NoError,
          s |-> IF index.n >= 0 THEN ToBase2(index.n) ELSE <<"-">> \o ToBase2(-index.n)]
    [] index.t = "number" /\ index.k = "frac" ->
         [thrown |-> NoError,
          s |-> IF index.n >= 0 THEN ToBase2(index.n) \o <<".", "1">>
                ELSE <<"-">> \o ToBase2(-index.n - 1) \o <<".", "1">>]
    [] index.t = "number" /\ index.k = "nan" -> [thrown |-> NoError, s |-> <<"N", "a", "N">>]
    [] index.t = "string"  -> [thrown |-> NoError, s |-> index.s]
    [] index.t = "boolean" ->
         [thrown |-> NoError,
          s |-> IF index.n = 1 THEN <<"t", "r", "u", "e">> ELSE <<"f", "a", "l", "s", "e">>]
    [] index.t = "object"  ->
         [thrown |-> NoError,
          s |-> <<"[", "o", "b", "j", "e", "c", "t", " ", "O", "b", "j", "e", "c", "t", "]">>]
    [] index.t = "function" ->
         [thrown |-> NoError,
          s |-> <<"f", "u", "n", "c", "t", "i", "o", "n", " ">> \o index.s
                  \o <<"(", ")", " ", "{", " ", "[", "n", "a", "t", "i", "v", "e", " ", "c", "o", "d", "e", "]", " ", "}">>]
    [] index.t \in {"undefined", "null"} ->
         [thrown |-> "TypeError: Cannot read properties of " \o index.t \o " (reading 'toString')",
          s |-> <<>>]

\* (mutant) padStart(11, '0')
toBinaryPad11(this) ==
  IF this._binary.t = "null"
  THEN LET str == IndexToString2(this.index) IN
       IF str.thrown # NoError
       THEN [thrown |-> str.thrown, value |-> JSUndef, this |-> this]
       ELSE LET padded == JSStr(PadStart(str.s, 11, "0")) IN
            [thrown |-> NoError, value |-> padded, this |-> [this EXCEPT !._binary = padded]]
  ELSE [thrown |-> NoError, value |-> this._binary, this |-> this]

\* toBinary(): the value returned and the object after the call
toBinary(this) ==
  IF this._binary.t = "null"
  THEN LET str == IndexToString2(this.index) IN
       IF str.thrown # NoError
       THEN [thrown |-> str.thrown, value |-> JSUndef, this |-> this]
       ELSE LET padded == JSStr(PadStart(str.s, 12, "0")) IN
            [thrown |-> NoError, value |-> padded, this |-> [this EXCEPT !._binary = padded]]
  ELSE [thrown |-> NoError, value |-> this._binary, this |-> this]

\* toBitArray()
toBitArray(this) ==
  LET b == toBinary(this) IN
  IF b.thrown # NoError THEN b
  ELSE [thrown |-> NoError,
        value |-> JSArray([i \in 1..Len(b.value.s) |-> ParseInt(<<b.value.s[i]>>, 10)]),
        this |-> b.this]

\* (mutant) the two symbols exchanged: bit === '1' ? '○' : '●'
toDotsInverted(this) ==
  IF this._dots.t = "null"
  THEN LET b == toBinary(this) IN
       IF b.thrown # NoError THEN b
       ELSE LET dots == JSStr([i \in 1..Len(b.value.s) |->
                                 IF b.value.s[i] = "1" THEN EMPTY ELSE FILLED]) IN
            [thrown |-> NoError, value |-> dots, this |-> [b.this EXCEPT !._dots = dots]]
  ELSE [thrown |-> NoError, value |-> this._dots, this |-> this]

\* (mutant) the cache test made on the wrong field: this._binary === null
toDotsWrongCacheTest(this) ==
  IF this._binary.t = "null"
  THEN LET b == toBinary(this) IN
       IF b.thrown # NoError THEN b
       ELSE LET dots == JSStr([i \in 1..Len(b.value.s) |->
                                 IF b.value.s[i] = "1" THEN FILLED ELSE EMPTY]) IN
            [thrown |-> NoError, value |-> dots, this |-> [b.this EXCEPT !._dots = dots]]
  ELSE [thrown |-> NoError, value |-> this._dots, this |-> this]

\* toDots()
toDots(this) ==
  IF this._dots.t = "null"
  THEN LET b == toBinary(this) IN
       IF b.thrown # NoError THEN b
       ELSE LET dots == JSStr([i \in 1..Len(b.value.s) |->
                                 IF b.value.s[i] = "1" THEN FILLED ELSE EMPTY]) IN
            [thrown |-> NoError, value |-> dots, this |-> [b.this EXCEPT !._dots = dots]]
  ELSE [thrown |-> NoError, value |-> this._dots, this |-> this]

\* (mutant) the last group cut one short: dots.substring(8, 11)
toColumnsShort(this) ==
  IF this._columns.t = "null"
  THEN LET d == toDots(this) IN
       IF d.thrown # NoError THEN d
       ELSE LET dots == d.value.s
                columns == JSArray(<<JSStr(Substring(dots, 0, 4)),
                                     JSStr(Substring(dots, 4, 8)),
                                     JSStr(Substring(dots, 8, 11))>>) IN
            [thrown |-> NoError, value |-> columns,
             this |-> [d.this EXCEPT !._columns = columns]]
  ELSE [thrown |-> NoError, value |-> this._columns, this |-> this]

\* toColumns()
toColumns(this) ==
  IF this._columns.t = "null"
  THEN LET d == toDots(this) IN
       IF d.thrown # NoError THEN d
       ELSE LET dots == d.value.s
                columns == JSArray(<<JSStr(Substring(dots, 0, 4)),
                                     JSStr(Substring(dots, 4, 8)),
                                     JSStr(Substring(dots, 8, 12))>>) IN
            [thrown |-> NoError, value |-> columns,
             this |-> [d.this EXCEPT !._columns = columns]]
  ELSE [thrown |-> NoError, value |-> this._columns, this |-> this]

\* Array.prototype.join(separator) of an array of strings
RECURSIVE Join(_, _)
Join(elems, separator) ==
  IF elems = <<>> THEN <<>>
  ELSE IF Len(elems) = 1 THEN elems[1].s
  ELSE elems[1].s \o <<separator>> \o Join(Tail(elems), separator)

\* toDisplayString()
toDisplayString(this) ==
  LET c == toColumns(this) IN
  IF c.thrown # NoError THEN c
  ELSE [thrown |-> NoError, value |-> JSStr(Join(c.value.s, " ")), this |-> c.this]

----------------------------------------------------------------------------
(* class Validator *)

ErrorNull == [t |-> "null", text |-> ""]
ErrorString(m) == [t |-> "string", text |-> m]

NoResult == [returned |-> FALSE, thrown |-> NoError, isValid |-> FALSE,
             error |-> ErrorNull, index |-> JSUndef]
Returned(isValid, error, index) ==
  [returned |-> TRUE, thrown |-> NoError, isValid |-> isValid, error |-> error,
   index |-> index]
Thrown(message) ==
  [returned |-> FALSE, thrown |-> message, isValid |-> FALSE, error |-> ErrorNull,
   index |-> JSUndef]

\* !v : v is one of the falsy values
Falsy(v) ==
  \/ v.t \in {"undefined", "null"}
  \/ v.t = "boolean" /\ v.n = 0
  \/ v.t = "number" /\ (v.k = "nan" \/ (v.k = "int" /\ v.n = 0))
  \/ v.t = "string" /\ v.s = <<>>

\* v.length: reading a property of undefined or null throws a TypeError
GetLength(v) ==
  CASE v.t \in {"undefined", "null"} ->
         [thrown |-> "TypeError: Cannot read properties of " \o v.t \o " (reading 'length')",
          value |-> JSUndef]
    [] v.t \in {"string", "array"} -> [thrown |-> NoError, value |-> JSNum(Len(v.s))]
    [] OTHER -> [thrown |-> NoError, value |-> JSUndef]

\* (mutant) the pattern without its end anchor: /^[01]+/.test(s)
TestBinaryRegexUnanchored(s) == Len(s) >= 1 /\ s[1] \in {"0", "1"}

\* /^[01]+$/.test(s)
TestBinaryRegex(s) == Len(s) >= 1 /\ \A i \in 1..Len(s) : s[i] \in {"0", "1"}

\* (mutant) the character check made before the length check
validateBinaryCharsFirst(b) ==
  IF Falsy(b) \/ b.t # "string"
  THEN Returned(FALSE, ErrorString("Binary must be a non-empty string"), JSNull)
  ELSE
    LET length == GetLength(b) IN
    IF length.thrown # NoError THEN Thrown(length.thrown)
    ELSE IF ~TestBinaryRegex(b.s)
    THEN Returned(FALSE, ErrorString("Binary string must contain only 0 and 1"), JSNull)
    ELSE IF length.value # JSNum(12)
    THEN Returned(FALSE,
                  ErrorString("Binary must be 12 bits long, got "
                                \o TemplateString(length.value)),
                  JSNull)
    ELSE LET index == ParseInt(b.s, 2) IN
         IF b.s[1] = "1"
         THEN Returned(FALSE, ErrorString("First bit must be 0 for SLIP39"), index)
         ELSE IF JSLess(index, 1) \/ JSGreater(index, 1024)
         THEN Returned(FALSE,
                       ErrorString("Index " \o TemplateString(index)
                                     \o " out of SLIP39 range (1-1024)"),
                       index)
         ELSE Returned(TRUE, ErrorNull, index)

\* (mutant) the first-bit failure returns index: null
validateBinaryNullIndex(b) ==
  IF Falsy(b) \/ b.t # "string"
  THEN Returned(FALSE, ErrorString("Binary must be a non-empty string"), JSNull)
  ELSE
    LET length == GetLength(b) IN
    IF length.thrown # NoError THEN Thrown(length.thrown)
    ELSE IF length.value # JSNum(12)
    THEN Returned(FALSE,
                  ErrorString("Binary must be 12 bits long, got "
                                \o TemplateString(length.value)),
                  JSNull)
    ELSE IF ~TestBinaryRegex(b.s)
    THEN Returned(FALSE, ErrorString("Binary string must contain only 0 and 1"), JSNull)
    ELSE LET index == ParseInt(b.s, 2) IN
         IF b.s[1] = "1"
         THEN Returned(FALSE, ErrorString("First bit must be 0 for SLIP39"), JSNull)
         ELSE IF JSLess(index, 1) \/ JSGreater(index, 1024)
         THEN Returned(FALSE,
                       ErrorString("Index " \o TemplateString(index)
                                     \o " out of SLIP39 range (1-1024)"),
                       index)
         ELSE Returned(TRUE, ErrorNull, index)

\* (mutant) emptiness tested by binary.length === 0 in place of !binary
validateBinaryLengthGuard(b) ==
  LET length == GetLength(b) IN
  IF length.thrown # NoError THEN Thrown(length.thrown)
  ELSE IF length.value = JSNum(0) \/ b.t # "string"
  THEN Returned(FALSE, ErrorString("Binary must be a non-empty string"), JSNull)
  ELSE
    IF length.value # JSNum(12)
    THEN Returned(FALSE,
                  ErrorString("Binary must be 12 bits long, got "
                                \o TemplateString(length.value)),
                  JSNull)
    ELSE IF ~TestBinaryRegex(b.s)
    THEN Returned(FALSE, ErrorString("Binary string must contain only 0 and 1"), JSNull)
    ELSE LET index == ParseInt(b.s, 2) IN
         IF b.s[1] = "1"
         THEN Returned(FALSE, ErrorString("First bit must be 0 for SLIP39"), index)
         ELSE IF JSLess(index, 1) \/ JSGreater(index, 1024)
         THEN Returned(FALSE,
                       ErrorString("Index " \o TemplateString(index)
                                     \o " out of SLIP39 range (1-1024)"),
                       index)
         ELSE Returned(TRUE, ErrorNull, index)

\* static validateBinary(binary)
validateBinary(b) ==
  IF Falsy(b) \/ b.t # "string"
  THEN Returned(FALSE, ErrorString("Binary must be a non-empty string"), JSNull)
  ELSE
    LET length == GetLength(b) IN
    IF length.thrown # NoError THEN Thrown(length.thrown)
    ELSE IF length.value # JSNum(12)
    THEN Returned(FALSE,
                  ErrorString("Binary must be 12 bits long, got "
                                \o TemplateString(length.value)),
                  JSNull)
    ELSE IF ~TestBinaryRegex(b.s)
    THEN Returned(FALSE, ErrorString("Binary string must contain only 0 and 1"), JSNull)
    ELSE LET index == ParseInt(b.s, 2) IN
         IF b.s[1] = "1"
         THEN Returned(FALSE, ErrorString("First bit must be 0 for SLIP39"), index)
         ELSE IF JSLess(index, 1) \/ JSGreater(index, 1024)
         THEN Returned(FALSE,
                       ErrorString("Index " \o TemplateString(index)
                                     \o " out of SLIP39 range (1-1024)"),
                       index)
         ELSE Returned(TRUE, ErrorNull, index)

----------------------------------------------------------------------------
(* class Converter *)

UpperLetters == <<"A", "B", "C", "D", "E", "F", "G", "H", "I", "J", "K", "L", "M", "N", "O", "P", "Q", "R", "S", "T", "U", "V", "W", "X", "Y", "Z">>
LowerLetters == <<"a", "b", "c", "d", "e", "f", "g", "h", "i", "j", "k", "l", "m", "n", "o", "p", "q", "r", "s", "t", "u", "v", "w", "x", "y", "z">>

\* String.prototype.toLowerCase
ToLowerCase(s) ==
  [i \in 1..Len(s) |->
     IF \E j \in 1..26 : UpperLetters[j] = s[i]
     THEN LowerLetters[CHOOSE j \in 1..26 : UpperLetters[j] = s[i]]
     ELSE s[i]]

\* an exception: the name of its class and its message
NoException == [name |-> "", message |-> ""]
Exception(name, message) == [name |-> name, message |-> message]

\* what a plain object {} inherits from Object.prototype
PROTO == <<"_", "_", "p", "r", "o", "t", "o", "_", "_">>
ObjectPrototype ==
  <<[key |-> <<"c", "o", "n", "s", "t", "r", "u", "c", "t", "o", "r">>, value |-> JSFunction(<<"O", "b", "j", "e", "c", "t">>)],
    [key |-> PROTO, value |-> JSObject],
    [key |-> <<"h", "a", "s", "O", "w", "n", "P", "r", "o", "p", "e", "r", "t", "y">>,
     value |-> JSFunction(<<"h", "a", "s", "O", "w", "n", "P", "r", "o", "p", "e", "r", "t", "y">>)],
    [key |-> <<"i", "s", "P", "r", "o", "t", "o", "t", "y", "p", "e", "O", "f">>,
     value |-> JSFunction(<<"i", "s", "P", "r", "o", "t", "o", "t", "y", "p", "e", "O", "f">>)],
    [key |-> <<"p", "r", "o", "p", "e", "r", "t", "y", "I", "s", "E", "n", "u", "m", "e", "r", "a", "b", "l", "e">>,
     value |-> JSFunction(<<"p", "r", "o", "p", "e", "r", "t", "y", "I", "s", "E", "n", "u", "m", "e", "r", "a", "b", "l", "e">>)],
    [key |-> <<"t", "o", "L", "o", "c", "a", "l", "e", "S", "t", "r", "i", "n", "g">>,
     value |-> JSFunction(<<"t", "o", "L", "o", "c", "a", "l", "e", "S", "t", "r", "i", "n", "g">>)],
    [key |-> <<"t", "o", "S", "t", "r", "i", "n", "g">>,
     value |-> JSFunction(<<"t", "o", "S", "t", "r", "i", "n", "g">>)],
    [key |-> <<"v", "a", "l", "u", "e", "O", "f">>,
     value |-> JSFunction(<<"v", "a", "l", "u", "e", "O", "f">>)]>>

\* the places of the property list props that hold key
Places(props, key) == {i \in 1..Len(props) : props[i].key = key}

\* obj[key] of a plain object with the own properties own
GetProperty(own, key) ==
  IF Places(own, key) # {} THEN own[CHOOSE i \in Places(own, key) : TRUE].value
  ELSE IF Places(ObjectPrototype, key) # {}
  THEN ObjectPrototype[CHOOSE i \in Places(ObjectPrototype, key) : TRUE].value
  ELSE JSUndef

\* obj[key] = value with value a number: __proto__ is the inherited setter,
\* which ignores a value that is no object; any other key is an own property
SetProperty(own, key, value) ==
  IF key = PROTO THEN own
  ELSE IF Places(own, key) # {}
  THEN [own EXCEPT ![CHOOSE i \in Places(own, key) : TRUE].value = value]
  ELSE Append(own, [key |-> key, value |-> value])

\* a value that has no method of the given name: what calling it throws
NoMethod(v, receiver, method) ==
  IF v.t \in {"undefined", "null"}
  THEN Exception("TypeError",
                 "Cannot read properties of " \o v.t \o " (reading '" \o method \o "')")
  ELSE Exception("TypeError", receiver \o "." \o method \o " is not a function")

\* a wordlist: the object whose Object.entries are entries, or null
Wordlist(entries) == [t |-> "object", entries |-> entries]
NullWordlist == [t |-> "null", entries |-> <<>>]

\* the loop of buildReverseWordlist over the entries at the places lo..hi,
\* reverse the table before them: the first half of the places, then the
\* second; a word that is no string ends the loop with the TypeError
RECURSIVE BuildFrom(_, _, _, _)
BuildFrom(entries, lo, hi, reverse) ==
  IF reverse.thrown # NoException \/ lo > hi THEN reverse
  ELSE IF lo = hi
  THEN LET index == entries[lo].key
           word == entries[lo].word IN
       IF word.t # "string"
       THEN [thrown |-> NoMethod(word, "word", "toLowerCase"), value |-> <<>>]
       ELSE [thrown |-> NoException,
             value |-> SetProperty(reverse.value, ToLowerCase(word.s), ParseInt(index, 10))]
  ELSE BuildFrom(entries, (lo + hi) \div 2 + 1, hi,
                 BuildFrom(entries, lo, (lo + hi) \div 2, reverse))

\* buildReverseWordlist(wordlist)
buildReverseWordlist(wordlist) ==
  IF wordlist.t = "null"
  THEN [thrown |-> Exception("TypeError", "Cannot convert undefined or null to object"),
        value |-> <<>>]
  ELSE BuildFrom(wordlist.entries, 1, Len(wordlist.entries),
                 [thrown |-> NoException, value |-> <<>>])

NoConverter == [live |-> FALSE, wordlist |-> NullWordlist, reverseWordlist |-> <<>>]

\* constructor(wordlist): what the call throws and the object it leaves
Converter(wordlist) ==
  LET reverse == buildReverseWordlist(wordlist) IN
  IF reverse.thrown # NoException
  THEN [thrown |-> reverse.thrown, this |-> NoConverter]
  ELSE [thrown |-> NoException,
        this |-> [live |-> TRUE, wordlist |-> wordlist, reverseWordlist |-> reverse.value]]

NoConversion ==
  [word |-> JSUndef, index |-> JSUndef, binary |-> JSUndef, dots |-> JSUndef,
   columns |-> JSUndef]

\* (mutant) the word looked up as given: this.reverseWordlist[word]
convertWordToDotsCaseSensitive(this, word) ==
  IF word.t # "string"
  THEN [thrown |-> NoMethod(word, "word", "toLowerCase"), value |-> NoConversion]
  ELSE
    LET index == GetProperty(this.reverseWordlist, word.s) IN
    IF Falsy(index)
    THEN [thrown |-> Exception("Error", "Word \"" \o TemplateString(word)
                                          \o "\" not found in SLIP39 wordlist"),
          value |-> NoConversion]
    ELSE
      LET pattern == DotPattern(index) IN
      IF pattern.thrown # NoError
      THEN [thrown |-> Exception("Error", pattern.thrown), value |-> NoConversion]
      ELSE LET b == toBinary(pattern.this)
               d == toDots(b.this)
               c == toColumns(d.this) IN
           [thrown |-> NoException,
            value |-> [word |-> word, index |-> index, binary |-> b.value,
                       dots |-> d.value, columns |-> c.value]]

\* convertWordToDots(word): what the call throws and the object it returns
convertWordToDots(this, word) ==
  IF word.t # "string"
  THEN [thrown |-> NoMethod(word, "word", "toLowerCase"), value |-> NoConversion]
  ELSE
    LET index == GetProperty(this.reverseWordlist, ToLowerCase(word.s)) IN
    IF Falsy(index)
    THEN [thrown |-> Exception("Error", "Word \"" \o TemplateString(word)
                                          \o "\" not found in SLIP39 wordlist"),
          value |-> NoConversion]
    ELSE
      LET pattern == DotPattern(index) IN
      IF pattern.thrown # NoError
      THEN [thrown |-> Exception("Error", pattern.thrown), value |-> NoConversion]
      ELSE LET b == toBinary(pattern.this)
               d == toDots(b.this)
               c == toColumns(d.this) IN
           [thrown |-> NoException,
            value |-> [word |-> word, index |-> index, binary |-> b.value,
                       dots |-> d.value, columns |-> c.value]]

\* String.prototype.split(/\s+/): the pieces between the runs of whitespace
RECURSIVE SplitWhitespace(_)
SplitWhitespace(s) ==
  LET ws == {i \in 1..Len(s) : s[i] \in Whitespace} IN
  IF ws = {} THEN <<JSStr(s)>>
  ELSE LET i == CHOOSE x \in ws : \A y \in ws : x <= y
           after == {x \in (i + 1)..Len(s) : s[x] \notin Whitespace}
           j == IF after = {} THEN Len(s) + 1
                ELSE CHOOSE x \in after : \A y \in after : x <= y IN
       <<JSStr(SubSeq(s, 1, i - 1))>> \o SplitWhitespace(SubSeq(s, j, Len(s)))

NoBatch ==
  [isValid |-> FALSE, wordCount |-> 0, words |-> <<>>, patterns |-> <<>>, errors |-> <<>>]

\* (mutant) an error is put in front of the errors collected so far
TryCatchUnshift(res, i, word, conversion) ==
  IF conversion.thrown = NoException
  THEN [res EXCEPT !.words = Append(@, word),
                   !.patterns = Append(@, conversion.value)]
  ELSE [res EXCEPT !.isValid = FALSE,
                   !.errors = <<[position |-> i, word |-> word,
                                 error |-> conversion.thrown.message]>> \o @]

\* the try/catch of the forEach callback: res after the word at place i, whose
\* conversion is given, is pushed to patterns or to errors
TryCatch(res, i, word, conversion) ==
  IF conversion.thrown = NoException
  THEN [res EXCEPT !.words = Append(@, word),
                   !.patterns = Append(@, conversion.value)]
  ELSE [res EXCEPT !.isValid = FALSE,
                   !.errors = Append(@, [position |-> i, word |-> word,
                                         error |-> conversion.thrown.message])]

\* the forEach of convertWithValidation over the words from place i on
RECURSIVE ForEachWord(_, _, _, _)
ForEachWord(this, words, i, res) ==
  IF i > Len(words) THEN res
  ELSE ForEachWord(this, words, i + 1,
                   TryCatch(res, i, words[i], convertWordToDots(this, words[i])))

\* (mutant) no try/catch around convertWordToDots: the first word that fails
\* ends the call with its exception
convertWithValidationNoCatch(this, mnemonic) ==
  IF mnemonic.t \notin {"array", "string"}
  THEN [thrown |-> NoMethod(mnemonic, "mnemonic", "trim"), value |-> NoBatch]
  ELSE
    LET words == IF mnemonic.t = "array" THEN mnemonic.s
                 ELSE SplitWhitespace(Trim(mnemonic.s))
        failing == {i \in 1..Len(words) :
                      convertWordToDots(this, words[i]).thrown # NoException} IN
    IF failing # {}
    THEN [thrown |-> convertWordToDots(this,
                       words[CHOOSE i \in failing : \A j \in failing : i <= j]).thrown,
          value |-> NoBatch]
    ELSE [thrown |-> NoException,
          value |-> ForEachWord(this, words, 1,
                      [isValid |-> TRUE, wordCount |-> Len(words), words |-> <<>>,
                       patterns |-> <<>>, errors |-> <<>>])]

\* convertWithValidation(mnemonic): what the call throws and the object it returns
convertWithValidation(this, mnemonic) ==
  IF mnemonic.t \notin {"array", "string"}
  THEN [thrown |-> NoMethod(mnemonic, "mnemonic", "trim"), value |-> NoBatch]
  ELSE
    LET words == IF mnemonic.t = "array" THEN mnemonic.s
                 ELSE SplitWhitespace(Trim(mnemonic.s)) IN
    [thrown |-> NoException,
     value |-> ForEachWord(this, words, 1,
                 [isValid |-> TRUE, wordCount |-> Len(words), words |-> <<>>,
                  patterns |-> <<>>, errors |-> <<>>])]

----------------------------------------------------------------------------
(* Inputs *)

Pow2(n) == 2 ^ n

\* the 12 symbols of the bits of n, most significant first
Symbols(n, one, zero) ==
  [i \in 1..12 |-> IF (n \div Pow2(12 - i)) % 2 = 1 THEN one ELSE zero]

\* s with its first letter, or all its letters, in upper case
ToUpperOf(c) ==
  IF \E j \in 1..26 : LowerLetters[j] = c
  THEN UpperLetters[CHOOSE j \in 1..26 : LowerLetters[j] = c]
  ELSE c
ToUpperAll(s) == [i \in 1..Len(s) |-> ToUpperOf(s[i])]
ToUpperFirst(s) == [i \in 1..Len(s) |-> IF i = 1 THEN ToUpperOf(s[i]) ELSE s[i]]

\* every string of at most m code units of alphabet A
Words(A, m) == UNION {[1..k -> A] : k \in 0..m}

\* base with at most MaxSplice code units cut out at one place and a word of
\* at most MaxSplice code units of A put in there
Splices(base, A) ==
  {SubSeq(base, 1, p) \o w \o SubSeq(base, q, Len(base)) :
     <<p, q, w>> \in {x \in (0..Len(base)) \X (1..(Len(base) + 1)) \X Words(A, MaxSplice) :
                        x[2] > x[1] /\ x[2] <= x[1] + 1 + MaxSplice}}

BaseValues == {0, 754, 1024, 3003}

DotStrings ==
  {Symbols(n, FILLED, EMPTY) : n \in 0..4095}
    \cup UNION {Splices(Symbols(n, FILLED, EMPTY), {FILLED, EMPTY, " ", "\n", "x", "1"}) :
                 n \in BaseValues}

BinaryStrings ==
  {Symbols(n, "1", "0") : n \in 0..4095}
    \cup UNION {Splices(Symbols(n, "1", "0"), {"0", "1", " ", "\n", "2", "b"}) :
                 n \in BaseValues}

\* values that are not strings, and a few strings a number can be read from
OtherValues ==
  {JSNaN, JSUndef, JSNull, JSObject, JSBool(TRUE), JSBool(FALSE)}
    \cup {JSFrac(n) : n \in {-1, 0, 1, 512, 1023, 1024, 2000}}
    \cup {JSStr(s) : s \in {<<>>, <<"0">>, <<"5">>, <<" ", "7", " ">>, <<"a", "b", "c">>,
                             <<"1", "0", "2", "5">>}}

ConstructorArgs ==
  {JSNum(n) : n \in (1 - Margin)..(1024 + Margin)} \cup OtherValues

FromDotsArgs == {JSStr(s) : s \in DotStrings} \cup {JSUndef, JSNull, JSNum(15)}

ValidatorArgs ==
  {JSStr(s) : s \in BinaryStrings} \cup OtherValues \cup {JSNum(0), JSNum(1), JSNum(15)}

\* the words of the documented wordlist entries, and words that are in no list
ACADEMIC == <<"a", "c", "a", "d", "e", "m", "i", "c">>
ACID == <<"a", "c", "i", "d">>
RESULT == <<"r", "e", "s", "u", "l", "t">>
ZERO == <<"z", "e", "r", "o">>
NOPE == <<"n", "o", "p", "e">>
CONSTRUCTOR == <<"c", "o", "n", "s", "t", "r", "u", "c", "t", "o", "r">>

Entry(key, word) == [key |-> key, word |-> word]

\* wordlists, each as Object.entries lists it (integer keys ascending first):
\* entries of the SLIP39 list; a list with an upper-case word, a word twice,
\* keys outside 1..1024 and a key that is no number; the empty list; a list
\* with a word that is no string; no list at all
SampleWordlist ==
  Wordlist(<<Entry(<<"1">>, JSStr(ACADEMIC)), Entry(<<"2">>, JSStr(ACID)),
             Entry(<<"7", "5", "4">>, JSStr(RESULT)),
             Entry(<<"1", "0", "2", "4">>, JSStr(ZERO))>>)
OddWordlist ==
  Wordlist(<<Entry(<<"0">>, JSStr(ZERO)), Entry(<<"2">>, JSStr(ToUpperFirst(ACID))),
             Entry(<<"3">>, JSStr(ACID)), Entry(<<"9">>, JSStr(PROTO)),
             Entry(<<"2", "0", "0", "0">>, JSStr(RESULT)),
             Entry(<<"a", "b", "c">>, JSStr(ACADEMIC))>>)
EmptyWordlist == Wordlist(<<>>)
MalformedWordlist == Wordlist(<<Entry(<<"1">>, JSStr(ACADEMIC)), Entry(<<"2">>, JSNull)>>)

Wordlists == {SampleWordlist, OddWordlist, EmptyWordlist, MalformedWordlist, NullWordlist}

\* arguments of convertWordToDots
WordArgs ==
  {JSStr(w) : w \in {ACADEMIC, ACID, RESULT, ZERO, NOPE, CONSTRUCTOR, PROTO, <<>>,
                      <<" ">> \o ZERO,
                      ToUpperFirst(ACADEMIC), ToUpperFirst(ZERO), ToUpperFirst(NOPE),
                      ToUpperAll(ACADEMIC), ToUpperAll(ACID), ToUpperAll(RESULT),
                      ToUpperAll(CONSTRUCTOR)}}
    \cup {JSNull, JSUndef, JSNum(5)}

\* every list of at most m elements of the set S
Lists(S, m) == UNION {[1..k -> S] : k \in 0..m}

\* the words of a list joined by sep, after lead and before trail
RECURSIVE JoinWords(_, _)
JoinWords(words, sep) ==
  IF words = <<>> THEN <<>>
  ELSE IF Len(words) = 1 THEN words[1]
  ELSE words[1] \o sep \o JoinWords(Tail(words), sep)

\* arguments of convertWithValidation: lists, strings, and values that are neither
MnemonicArgs ==
  {JSArray(l) :
     l \in Lists({JSStr(ACADEMIC), JSStr(ToUpperAll(ZERO)), JSStr(RESULT), JSStr(NOPE),
                  JSStr(CONSTRUCTOR), JSNum(5)}, MaxWords)}
    \cup {JSStr(lead \o JoinWords(l, sep) \o trail) :
            l \in Lists({ACADEMIC, NOPE}, MaxWords),
            sep \in {<<" ">>, <<" ", "\n">>},
            lead \in {<<>>, <<" ">>},
            trail \in {<<>>, <<"\t">>}}
    \cup {JSNull, JSUndef, JSNum(5), JSObject}

NoInput == [wordlist |-> NullWordlist, fn |-> "none", v |-> JSUndef]
NoOutput == [op |-> "none", arg |-> JSUndef, thrown |-> NoException, value |-> JSUndef]

\* no page is open
NoApp == [live |-> FALSE]

NoCall == [fn |-> "none", v |-> JSUndef]
NoReturn == [op |-> "none", arg |-> JSUndef, value |-> JSUndef, from |-> "none",
             src |-> JSUndef]

----------------------------------------------------------------------------
(* The DotPattern object and its caller *)

Init ==
  /\ arg \in {[fn |-> "new", v |-> a] : a \in ConstructorArgs}
              \cup {[fn |-> "fromDots", v |-> a] : a \in FromDotsArgs}
  /\ inst = Unallocated
  /\ ret = NoReturn
  /\ thrown = NoError
  /\ binary = JSUndef
  /\ result = NoResult
  /\ converter = NoConverter
  /\ input = NoInput
  /\ output = NoOutput
  /\ app = NoApp

\* new DotPattern(arg)
New ==
  /\ arg.fn = "new"
  /\ LET r == DotPattern(arg.v) IN
       /\ inst' = r.this
       /\ thrown' = r.thrown
       /\ ret' = [op |-> "new", arg |-> arg.v, value |-> JSUndef, from |-> "input",
                  src |-> JSUndef]
  /\ UNCHANGED <<app, arg, binary, result, converter, input, output>>

\* DotPattern.fromDots(s), s the caller's input or the string the last call returned
FromDots ==
  /\ \E call \in (IF arg.fn = "fromDots"
                   THEN {[arg |-> arg.v, from |-> "input", src |-> JSUndef]} ELSE {})
               \cup (IF ret.value.t = "string" /\ thrown = NoError
                     THEN {[arg |-> ret.value, from |-> ret.op, src |-> inst.index]}
                     ELSE {}) :
       LET r == fromDots(call.arg) IN
         /\ inst' = r.this
         /\ thrown' = r.thrown
         /\ ret' = [op |-> "fromDots", arg |-> call.arg, value |-> JSUndef,
                    from |-> call.from, src |-> call.src]
  /\ UNCHANGED <<app, arg, binary, result, converter, input, output>>

\* a call of an accessor on the object held
Access(op, r) ==
  /\ inst.live
  /\ inst' = r.this
  /\ thrown' = r.thrown
  /\ ret' = [op |-> op, arg |-> JSUndef, value |-> r.value, from |-> "none",
             src |-> JSUndef]
  /\ UNCHANGED <<app, arg, binary, result, converter, input, output>>

ToBinary == Access("toBinary", toBinary(inst))
ToBitArray == Access("toBitArray", toBitArray(inst))
ToDots == Access("toDots", toDots(inst))
ToColumns == Access("toColumns", toColumns(inst))
ToDisplayString == Access("toDisplayString", toDisplayString(inst))

Next ==
  \/ New
  \/ FromDots
  \/ ToBinary
  \/ ToBitArray
  \/ ToDots
  \/ ToColumns
  \/ ToDisplayString

Spec == Init /\ [][Next]_vars

----------------------------------------------------------------------------
(* The Validator and its caller *)

InitValidator ==
  /\ binary \in ValidatorArgs
  /\ result = NoResult
  /\ arg = NoCall
  /\ inst = Unallocated
  /\ ret = NoReturn
  /\ thrown = NoError
  /\ converter = NoConverter
  /\ input = NoInput
  /\ output = NoOutput
  /\ app = NoApp

\* Validator.validateBinary(binary)
ValidateBinary ==
  /\ ~result.returned /\ result.thrown = NoError
  /\ result' = validateBinary(binary)
  /\ UNCHANGED <<app, arg, inst, ret, thrown, binary, converter, input, output>>

NextValidator == ValidateBinary

SpecValidator == InitValidator /\ [][NextValidator]_vars

----------------------------------------------------------------------------
(* The Converter object and its caller *)

InitConverter ==
  /\ input \in {[wordlist |-> w, fn |-> "convertWordToDots", v |-> a] :
                   w \in Wordlists, a \in WordArgs}
               \cup {[wordlist |-> w, fn |-> "convertWithValidation", v |-> a] :
                       w \in Wordlists, a \in MnemonicArgs}
  /\ converter = NoConverter
  /\ output = NoOutput
  /\ app = NoApp
  /\ arg = NoCall
  /\ inst = Unallocated
  /\ ret = NoReturn
  /\ thrown = NoError
  /\ binary = JSUndef
  /\ result = NoResult

\* new Converter(wordlist)
NewConverter ==
  /\ ~converter.live /\ output.op = "none"
  /\ LET r == Converter(input.wordlist) IN
       /\ converter' = r.this
       /\ output' = [op |-> "new", arg |-> JSUndef, thrown |-> r.thrown, value |-> JSUndef]
  /\ UNCHANGED <<app, arg, inst, ret, thrown, binary, result, input>>

\* converter.convertWordToDots(word)
ConvertWordToDots ==
  /\ converter.live /\ input.fn = "convertWordToDots"
  /\ LET r == convertWordToDots(converter, input.v) IN
       output' = [op |-> "convertWordToDots", arg |-> input.v, thrown |-> r.thrown,
                  value |-> r.value]
  /\ UNCHANGED <<app, arg, inst, ret, thrown, binary, result, input, converter>>

\* converter.convertWithValidation(mnemonic)
ConvertWithValidation ==
  /\ converter.live /\ input.fn = "convertWithValidation"
  /\ LET r == convertWithValidation(converter, input.v) IN
       output' = [op |-> "convertWithValidation", arg |-> input.v, thrown |-> r.thrown,
                  value |-> r.value]
  /\ UNCHANGED <<app, arg, inst, ret, thrown, binary, result, input, converter>>

NextConverter ==
  \/ NewConverter
  \/ ConvertWordToDots
  \/ ConvertWithValidation

SpecConverter == InitConverter /\ [][NextConverter]_vars

----------------------------------------------------------------------------
(* One Converter object and the calls its callers make on it, in any order *)

\* arguments of the calls made on one object
CallWordArgs == WordArgs
CallMnemonicArgs ==
  {JSArray(l) :
     l \in Lists({JSStr(ACADEMIC), JSStr(CONSTRUCTOR), JSNum(5)}, MaxCallWords)}
    \cup {JSStr(ZERO \o <<" ">> \o PROTO), JSStr(NOPE \o <<"\n">> \o RESULT),
          JSStr(<<" ">> \o ToUpperAll(ACID)), JSStr(<<>>), JSNull}

InitCalls ==
  /\ input \in {[wordlist |-> w, fn |-> "calls", v |-> JSUndef] : w \in Wordlists}
  /\ converter = NoConverter
  /\ output = NoOutput
  /\ app = NoApp
  /\ arg = NoCall
  /\ inst = Unallocated
  /\ ret = NoReturn
  /\ thrown = NoError
  /\ binary = JSUndef
  /\ result = NoResult

\* (mutant) the index found is remembered under the word as given:
\* this.reverseWordlist[word] = index
CallConvertWordToDotsMemo ==
  /\ converter.live /\ input.fn = "calls"
  /\ \E word \in CallWordArgs :
       LET r == convertWordToDots(converter, word) IN
         /\ output' = [op |-> "convertWordToDots", arg |-> word, thrown |-> r.thrown,
                       value |-> r.value]
         /\ converter' =
              IF r.thrown = NoException
              THEN [converter EXCEPT !.reverseWordlist = SetProperty(@, word.s, r.value.index)]
              ELSE converter
  /\ UNCHANGED <<app, arg, inst, ret, thrown, binary, result, input>>

\* converter.convertWordToDots(word), word chosen by the caller
CallConvertWordToDots ==
  /\ converter.live /\ input.fn = "calls"
  /\ \E word \in CallWordArgs :
       LET r == convertWordToDots(converter, word) IN
         output' = [op |-> "convertWordToDots", arg |-> word, thrown |-> r.thrown,
                    value |-> r.value]
  /\ UNCHANGED <<app, arg, inst, ret, thrown, binary, result, input, converter>>

\* converter.convertWithValidation(mnemonic), mnemonic chosen by the caller
CallConvertWithValidation ==
  /\ converter.live /\ input.fn = "calls"
  /\ \E mnemonic \in CallMnemonicArgs :
       LET r == convertWithValidation(converter, mnemonic) IN
         output' = [op |-> "convertWithValidation", arg |-> mnemonic,
                    thrown |-> r.thrown, value |-> r.value]
  /\ UNCHANGED <<app, arg, inst, ret, thrown, binary, result, input, converter>>

NextCalls ==
  \/ NewConverter
  \/ CallConvertWordToDots
  \/ CallConvertWithValidation

SpecCalls == InitCalls /\ [][NextCalls]_vars

----------------------------------------------------------------------------
(* class Application: the page of the converter *)

\* the rows of the grid, and the dots of a row: 3 groups of 4
Rows == 33
Groups == 3
DotsPerGroup == 4
RowDots == Groups * DotsPerGroup

\* the decimal numeral of the natural number n: Number.prototype.toString()
RECURSIVE ToDecimal(_)
ToDecimal(n) ==
  IF n < 10 THEN <<CHOOSE c \in Digits : DigitValue[c] = n>>
  ELSE ToDecimal(n \div 10) \o <<CHOOSE c \in Digits : DigitValue[c] = n % 10>>

\* the wordlist assets/wordlist.json holds: a word for every index in 1..1024,
\* the documented words at their indices and a word made of the index elsewhere
WordAt(v) ==
  CASE v = 1 -> ACADEMIC
    [] v = 2 -> ACID
    [] v = 754 -> RESULT
    [] v = 1024 -> ZERO
    [] OTHER -> <<"w">> \o [i \in 1..Len(ToDecimal(v)) |->
                              LowerLetters[DigitValue[ToDecimal(v)[i]] + 1]]
LoadedWordlist == Wordlist([v \in 1..1024 |-> Entry(ToDecimal(v), JSStr(WordAt(v)))])

\* wordlist[key] for the decimal numeral of the integer n: an own property.
\* Object.entries lists integer keys in ascending order, so in a list with
\* the keys 1..m the entry of n is at place n
WordlistAt(wordlist, n) ==
  IF n \in 1..Len(wordlist.entries) /\ wordlist.entries[n].key = ToDecimal(n)
  THEN wordlist.entries[n].word
  ELSE LET at == {i \in 1..Len(wordlist.entries) : wordlist.entries[i].key = ToDecimal(n)} IN
       IF at = {} THEN JSUndef ELSE wordlist.entries[CHOOSE i \in at : TRUE].word

\* this.converter after initializeClasses, the wordlist loaded
LoadedConverter == Converter(LoadedWordlist).this

\* the place in its row of the dot dotIndex of the group groupIndex
Place(groupIndex, dotIndex) == groupIndex * DotsPerGroup + dotIndex + 1

\* (mutant) no dot is disabled: every dot gets the listener
DisabledNone(place) == FALSE

\* createDotRow gives the first dot of a row the class 'disabled' and no
\* click listener
Disabled(place) == place = Place(0, 0)

\* a row as createDotRow makes it: dots[i] says that dot i has the class
\* 'filled' (and not 'empty'); the text and class of its word display; hidden
\* says that the row element has the class 'hidden'
NewRow ==
  [dots |-> [i \in 1..RowDots |-> FALSE], textContent |-> "#0",
   className |-> "word-display empty", hidden |-> FALSE]

\* the element #error-container: in the page or not, its class 'hidden' and
\* its innerHTML
NoContainer == [exists |-> FALSE, hidden |-> TRUE, innerHTML |-> ""]
NewContainer == [exists |-> TRUE, hidden |-> TRUE, innerHTML |-> ""]

\* getOrCreateErrorContainer()
getOrCreateErrorContainer(this) ==
  IF this.errorContainer.exists THEN this.errorContainer ELSE NewContainer

\* showError(message, {title})
showError(this, message, title) ==
  [this EXCEPT !.errorContainer =
     [getOrCreateErrorContainer(this) EXCEPT
        !.innerHTML = "\n      <h3>" \o title \o "</h3>\n      <p>" \o message
                        \o "</p>\n    ",
        !.hidden = FALSE]]

\* errors.map(err => `Position ...`).join('<br>') from place i on
RECURSIVE ErrorDetails(_, _)
ErrorDetails(errors, i) ==
  IF i > Len(errors) THEN ""
  ELSE "Position " \o ToString(errors[i].position) \o ": " \o errors[i].error
         \o " (word: \"" \o TemplateString(errors[i].word) \o "\")"
         \o (IF i < Len(errors) THEN "<br>" ELSE "")
         \o ErrorDetails(errors, i + 1)

\* showValidationErrors(errors)
showValidationErrors(this, errors) ==
  showError(this,
            "Found " \o ToString(Len(errors)) \o " validation "
              \o (IF Len(errors) = 1 THEN "error" ELSE "errors")
              \o " in mnemonic input" \o "<br><br>" \o ErrorDetails(errors, 1),
            "Validation Failed")

\* clearDots()
clearDots(this) ==
  [this EXCEPT !.dotRows =
     [r \in 1..Rows |->
        [@[r] EXCEPT !.dots = [i \in 1..RowDots |-> FALSE],
                     !.textContent = "#0",
                     !.className = "word-display empty"]]]

\* clearErrors()
clearErrors(this) ==
  IF this.errorContainer.exists
  THEN [this EXCEPT !.errorContainer = [@ EXCEPT !.hidden = TRUE, !.innerHTML = ""]]
  ELSE this

\* clearAll()
clearAll(this) == clearErrors(clearDots([this EXCEPT !.mnemonicInput = <<>>]))

\* updateVisibleRows()
updateVisibleRows(this) ==
  [this EXCEPT !.dotRows =
     [r \in 1..Rows |-> [@[r] EXCEPT !.hidden = ~(r - 1 < this.currentWordCount)]]]

\* (mutant) the test inverted: the warning is hidden when online
updateNetworkWarningInverted(this) == [this EXCEPT !.warningHidden = this.isOnline]

\* updateNetworkWarning()
updateNetworkWarning(this) == [this EXCEPT !.warningHidden = ~this.isOnline]

\* dots.slice(1).map(...).join(''): the dots after the first as binary digits
BinaryString(row) == [i \in 1..(RowDots - 1) |-> IF row.dots[i + 1] THEN "1" ELSE "0"]

\* (mutant) a rejected value leaves the dots as they are
ShowWordKeepsDots(this, rowIndex, wordIndex, validation) ==
  IF ~validation.isValid \/ wordIndex = JSNum(0)
  THEN [this EXCEPT !.dotRows[rowIndex] =
          [@ EXCEPT !.textContent = "#0", !.className = "word-display empty"]]
  ELSE [this EXCEPT !.dotRows[rowIndex] =
          [@ EXCEPT !.textContent =
                      "#" \o TemplateString(wordIndex) \o " "
                        \o TemplateString(WordlistAt(LoadedWordlist, wordIndex.n)),
                    !.className = "word-display"]]

\* updateWordDisplay from the test of validation.isValid on: wordIndex the
\* value parsed from the dots, validation what validateBinary returned
ShowWord(this, rowIndex, wordIndex, validation) ==
  IF ~validation.isValid
  THEN [this EXCEPT !.dotRows[rowIndex] =
          [@ EXCEPT !.dots = [i \in 1..RowDots |-> Disabled(i) /\ @[i]],
                    !.textContent = "#0",
                    !.className = "word-display empty"]]
  ELSE IF wordIndex = JSNum(0)
  THEN [this EXCEPT !.dotRows[rowIndex] =
          [@ EXCEPT !.textContent = "#0", !.className = "word-display empty"]]
  ELSE IF this.loaded /\ ~Falsy(WordlistAt(LoadedWordlist, wordIndex.n))
  THEN [this EXCEPT !.dotRows[rowIndex] =
          [@ EXCEPT !.textContent =
                      "#" \o TemplateString(wordIndex) \o " "
                        \o TemplateString(WordlistAt(LoadedWordlist, wordIndex.n)),
                    !.className = "word-display"]]
  ELSE [this EXCEPT !.dotRows[rowIndex] =
          [@ EXCEPT !.textContent = "#" \o TemplateString(wordIndex) \o " (unknown)",
                    !.className = "word-display empty"]]

\* updateWordDisplay(rowIndex): the message of what it throws and the page
\* after it; this.validator is null when the wordlist was not loaded
updateWordDisplay(this, rowIndex) ==
  IF ~this.loaded
  THEN [thrown |-> "Cannot read properties of null (reading 'validateBinary')",
        this |-> this]
  ELSE [thrown |-> NoError,
        this |-> ShowWord(this, rowIndex,
                          ParseInt(BinaryString(this.dotRows[rowIndex]), 2),
                          validateBinary(JSStr(<<"0">>
                                                 \o BinaryString(this.dotRows[rowIndex]))))]

\* handleDotClick(rowIndex, groupIndex, dotIndex)
handleDotClick(this, rowIndex, groupIndex, dotIndex) ==
  updateWordDisplay(
    [this EXCEPT !.dotRows[rowIndex].dots[Place(groupIndex, dotIndex)] = ~@], rowIndex)

\* setRowFromPattern from dots.forEach on: bits what toBitArray returned
FillRow(this, rowIndex, bits) ==
  IF bits.thrown # NoError THEN [thrown |-> bits.thrown, this |-> this]
  ELSE updateWordDisplay(
         [this EXCEPT !.dotRows[rowIndex].dots =
            [i \in 1..RowDots |-> i <= Len(bits.value.s) /\ bits.value.s[i] = JSNum(1)]],
         rowIndex)

\* setRowFromPattern from toBitArray on: dotPattern what new DotPattern returned
SetDots(this, rowIndex, dotPattern) ==
  IF dotPattern.thrown # NoError THEN [thrown |-> dotPattern.thrown, this |-> this]
  ELSE FillRow(this, rowIndex, toBitArray(dotPattern.this))

\* setRowFromPattern(rowIndex, pattern)
setRowFromPattern(this, rowIndex, pattern) ==
  IF rowIndex > Len(this.dotRows) THEN [thrown |-> NoError, this |-> this]
  ELSE SetDots(this, rowIndex, DotPattern(pattern.index))

\* result.patterns.forEach of convertMnemonicToDots from place i on; done is
\* what the callback did at the place before
RECURSIVE ForEachPattern(_, _, _)
ForEachPattern(done, patterns, i) ==
  IF done.thrown # NoError \/ i > Len(patterns) THEN done
  ELSE IF i - 1 < done.this.currentWordCount
  THEN ForEachPattern(setRowFromPattern(done.this, i, patterns[i]), patterns, i + 1)
  ELSE ForEachPattern(done, patterns, i + 1)

\* the catch of convertMnemonicToDots
CatchConversion(done) ==
  IF done.thrown # NoError
  THEN showError(done.this, "Conversion failed: " \o done.thrown, "Error")
  ELSE done.this

\* (mutant) the rows are not cleared before the patterns are set
ShowResultKeepsDots(this, res) ==
  IF ~res.isValid THEN showValidationErrors(this, res.errors)
  ELSE CatchConversion(
         ForEachPattern([thrown |-> NoError, this |-> this], res.patterns, 1))

\* (mutant) a conversion without errors hides the errors shown before
ShowResultClearsErrors(this, res) ==
  IF ~res.isValid THEN showValidationErrors(this, res.errors)
  ELSE CatchConversion(
         ForEachPattern([thrown |-> NoError, this |-> clearErrors(clearDots(this))],
                        res.patterns, 1))

\* convertMnemonicToDots from the test of result.isValid on
ShowResult(this, res) ==
  IF ~res.isValid THEN showValidationErrors(this, res.errors)
  ELSE CatchConversion(
         ForEachPattern([thrown |-> NoError, this |-> clearDots(this)], res.patterns, 1))

\* mnemonicInput.value.trim().toLowerCase().split(/\s+/).filter(...)
InputWords(value) ==
  SelectSeq(SplitWhitespace(ToLowerCase(Trim(value))), LAMBDA word : Len(word.s) > 0)

\* convertMnemonicToDots(); this.converter is null when the wordlist was not
\* loaded
convertMnemonicToDots(this) ==
  IF InputWords(this.mnemonicInput) = <<>> THEN this
  ELSE IF ~this.loaded
  THEN showError(this,
                 "Conversion failed: "
                   \o "Cannot read properties of null (reading 'convertWithValidation')",
                 "Error")
  ELSE ShowResult(this,
                  convertWithValidation(LoadedConverter,
                                        JSArray(InputWords(this.mnemonicInput))).value)

\* the object and the page when init() has finished: loaded says whether
\* loadWordlist got the wordlist, container whether the page holds the element
\* #error-container, onLine is navigator.onLine; network is the last of the
\* events 'online' and 'offline' and navigator.onLine
Application(loaded, container, onLine) ==
  updateNetworkWarning(
    updateVisibleRows(
      [live |-> TRUE,
       loaded |-> loaded,
       currentWordCount |-> 20,
       dotRows |-> [r \in 1..Rows |-> NewRow],
       mnemonicInput |-> <<>>,
       errorContainer |-> container,
       isOnline |-> onLine,
       warningHidden |-> FALSE,
       network |-> [event |-> "none", onLine |-> onLine]]))

\* what the user types into #mnemonicInput: two words of the wordlist with
\* upper-case letters and spare whitespace, a word that is in no wordlist,
\* two of them, the name of a member of Object.prototype, blanks, and
\* LongCount words of the wordlist
RECURSIVE Repeat(_, _)
Repeat(word, count) == IF count = 0 THEN <<>> ELSE <<word>> \o Repeat(word, count - 1)
MnemonicValues ==
  {<<" ">> \o ToUpperFirst(ACADEMIC) \o <<" ", " ">> \o ToUpperAll(ZERO) \o <<" ">>,
   ACADEMIC \o <<" ">> \o NOPE,
   NOPE \o <<" ">> \o RESULT \o <<" ">> \o NOPE,
   CONSTRUCTOR,
   <<" ", " ">>,
   JoinWords(Repeat(RESULT, LongCount), <<" ">>)}

\* the options of #wordCount
WordCountOptions == {<<"2", "0">>, <<"3", "3">>}

\* the dots the user clicks: the first dot of a row, the first dot that has
\* a listener and the last dot, in the row after the twentieth, which the
\* smallest word count hides and a conversion of more than 20 words fills
ClickRows == {21}
ClickDots == {<<0, 0>>, <<0, 1>>, <<2, 3>>}

----------------------------------------------------------------------------
(* The page and its user *)

InitApplication ==
  /\ app \in {Application(loaded, NoContainer, onLine) :
                loaded \in BOOLEAN, onLine \in BOOLEAN}
  /\ converter = NoConverter
  /\ input = NoInput
  /\ output = NoOutput
  /\ arg = NoCall
  /\ inst = Unallocated
  /\ ret = NoReturn
  /\ thrown = NoError
  /\ binary = JSUndef
  /\ result = NoResult

\* a click on a dot that has the listener, in a row that is shown
DotClick ==
  /\ \E rowIndex \in ClickRows, dot \in ClickDots :
       /\ ~Disabled(Place(dot[1], dot[2]))
       /\ ~app.dotRows[rowIndex].hidden
       /\ app' = handleDotClick(app, rowIndex, dot[1], dot[2]).this
  /\ UNCHANGED <<arg, inst, ret, thrown, binary, result, converter, input, output>>

\* the user changes the text of #mnemonicInput: the 'input' listener
MnemonicInput ==
  /\ \E value \in MnemonicValues :
       /\ value # app.mnemonicInput
       /\ app' = clearDots([app EXCEPT !.mnemonicInput = value])
  /\ UNCHANGED <<arg, inst, ret, thrown, binary, result, converter, input, output>>

\* a click on #convertBtn
ConvertClick ==
  /\ app' = convertMnemonicToDots(app)
  /\ UNCHANGED <<arg, inst, ret, thrown, binary, result, converter, input, output>>

\* a click on #clearBtn
ClearClick ==
  /\ app' = clearAll(app)
  /\ UNCHANGED <<arg, inst, ret, thrown, binary, result, converter, input, output>>

\* the user picks another option of #wordCount: the 'change' listener
WordCountChange ==
  /\ \E value \in WordCountOptions :
       /\ ParseInt(value, 10).n # app.currentWordCount
       /\ app' = updateVisibleRows([app EXCEPT !.currentWordCount = ParseInt(value, 10).n])
  /\ UNCHANGED <<arg, inst, ret, thrown, binary, result, converter, input, output>>

\* the window's 'online' event: the browser has gone online
Online ==
  /\ app' = updateNetworkWarning([app EXCEPT !.isOnline = TRUE,
                                         !.network = [event |-> "online", onLine |-> TRUE]])
  /\ UNCHANGED <<arg, inst, ret, thrown, binary, result, converter, input, output>>

\* the window's 'offline' event: the browser has gone offline
Offline ==
  /\ app' = updateNetworkWarning([app EXCEPT !.isOnline = FALSE,
                                         !.network = [event |-> "offline", onLine |-> FALSE]])
  /\ UNCHANGED <<arg, inst, ret, thrown, binary, result, converter, input, output>>

NextApplication ==
  \/ DotClick
  \/ MnemonicInput
  \/ ConvertClick
  \/ ClearClick
  \/ WordCountChange
  \/ Online
  \/ Offline

SpecApplication == InitApplication /\ [][NextApplication]_vars

----------------------------------------------------------------------------
(* Properties *)

\* v is an integer of the SLIP39 range
IsIndex(v) == v.t = "number" /\ v.k = "int" /\ v.n \in 1..1024

\* the sum of the weights 2048, 1024, ..., 2, 1 at the places of s that hold one
RECURSIVE WeightSum(_, _, _)
WeightSum(s, one, i) ==
  IF i > Len(s) THEN 0
  ELSE (IF s[i] = one THEN Pow2(Len(s) - i) ELSE 0) + WeightSum(s, one, i + 1)

\* C1: round trip. When fromDots is given the toDots() or the toDisplayString()
\* of an object whose index is an integer in 1..1024, it returns an object
\* with that index.
C1_RoundTrip ==
  (ret.op = "fromDots" /\ ret.from \in {"toDots", "toDisplayString"} /\ IsIndex(ret.src))
    => (thrown = NoError /\ inst.live /\ inst.index = ret.src)

C1_Witness ==
  /\ ret.op = "fromDots" /\ ret.from = "toDisplayString"
  /\ ret.src = JSNum(754) /\ Len(ret.arg.s) = 14
  /\ inst.live /\ inst.index = JSNum(754)

\* the message of the range error for the integer n
RangeMessage(n) == "Index " \o ToString(n) \o " out of SLIP39 range (1-1024)"

\* the five checks of the validator, as conditions on the input
NotNonEmptyString(b) == b.t # "string" \/ b.s = <<>>
WrongLength(b) == Len(b.s) # 12
NonBinaryCharacter(b) == \E i \in 1..Len(b.s) : b.s[i] \notin {"0", "1"}
FirstBitSet(b) == b.s[1] = "1"
OutOfRange(b) == WeightSum(b.s, "1", 1) \notin 1..1024

Admissible(b) ==
  /\ ~NotNonEmptyString(b) /\ ~WrongLength(b) /\ ~NonBinaryCharacter(b)
  /\ ~FirstBitSet(b) /\ ~OutOfRange(b)

\* C2: validateBinary answers isValid = true exactly for the strings of 12
\* characters '0'/'1' whose first character is '0' and whose base-2 value is
\* in 1..1024; for these error is null and index is the value, for every
\* other input isValid is false and error is not null.
C2_AcceptsExactly ==
  result.returned =>
    /\ result.isValid <=> Admissible(binary)
    /\ Admissible(binary) =>
         result.error = ErrorNull /\ result.index = JSNum(WeightSum(binary.s, "1", 1))
    /\ ~Admissible(binary) => ~result.isValid /\ result.error.t = "string"

C2_Witness ==
  /\ result.returned /\ result.isValid
  /\ binary = JSStr(Symbols(1024, "1", "0")) /\ result.index = JSNum(1024)

\* C3: an object that exists holds an integer index in 1..1024, whatever was
\* passed to the constructor.
C3_LiveIndexValid == inst.live => IsIndex(inst.index)

\* C4: for an integer argument, new DotPattern(index) throws 'Index <index> out
\* of SLIP39 range (1-1024)' and leaves no object and no field if index < 1 or
\* index > 1024, and otherwise yields an object with that index whose derived
\* fields are not computed yet.
C4_RangeGate ==
  (ret.op = "new" /\ ret.arg.t = "number" /\ ret.arg.k = "int") =>
    IF ret.arg.n < 1 \/ ret.arg.n > 1024
    THEN /\ thrown = RangeMessage(ret.arg.n)
         /\ ~inst.live
         /\ \A f \in {"index", "_binary", "_dots", "_columns"} : inst[f] = JSUndef
    ELSE /\ thrown = NoError
         /\ inst.live /\ inst.index = ret.arg
         /\ \A f \in {"_binary", "_dots", "_columns"} : inst[f] = JSNull

C4_Witness ==
  /\ ret.op = "new" /\ ret.arg = JSNum(1025)
  /\ thrown = "Index 1025 out of SLIP39 range (1-1024)" /\ ~inst.live

\* s is a string of exactly 12 dot symbols
WellFormedDots(v) ==
  v.t = "string" /\ Len(v.s) = 12 /\ \A i \in 1..12 : v.s[i] \in {FILLED, EMPTY}

\* C5: fromDots of 12 dot symbols whose value is 0 or above 1024 throws the
\* range error of the constructor for that value, and returns no object.
C5_DecodedRange ==
  (ret.op = "fromDots" /\ WellFormedDots(ret.arg)
     /\ WeightSum(ret.arg.s, FILLED, 1) \notin 1..1024) =>
    /\ thrown = RangeMessage(WeightSum(ret.arg.s, FILLED, 1))
    /\ thrown = DotPattern(JSNum(WeightSum(ret.arg.s, FILLED, 1))).thrown
    /\ ~inst.live

C5_Witness ==
  /\ ret.op = "fromDots" /\ ret.arg = JSStr(Symbols(0, FILLED, EMPTY))
  /\ thrown = "Index 0 out of SLIP39 range (1-1024)" /\ ~inst.live

\* the code units of s that are not whitespace, in order
RECURSIVE NonBlank(_)
NonBlank(s) ==
  IF s = <<>> THEN <<>>
  ELSE IF Head(s) \in {" ", "\t", "\n"} THEN NonBlank(Tail(s))
  ELSE <<Head(s)>> \o NonBlank(Tail(s))

\* the least place of s that holds no dot symbol (0 if there is none)
FirstOffending(s) ==
  LET bad == {i \in 1..Len(s) : s[i] \notin {FILLED, EMPTY}} IN
  IF bad = {} THEN 0 ELSE CHOOSE i \in bad : \A j \in bad : i <= j

\* C6: fromDots looks at the string without its whitespace: if that is not 12
\* long the length error reports its length, whatever the characters are;
\* otherwise if a character is no dot symbol the error names the first such.
C6_LengthThenCharacter ==
  (ret.op = "fromDots" /\ ret.arg.t = "string") =>
    LET clean == NonBlank(ret.arg.s) IN
    /\ Len(clean) # 12 =>
         thrown = "Dot string must be 12 characters long, got " \o ToString(Len(clean))
    /\ (Len(clean) = 12 /\ FirstOffending(clean) # 0) =>
         thrown = "Invalid dot character: " \o clean[FirstOffending(clean)]
                    \o ". Use ● or ○"
    /\ thrown # NoError => ~inst.live

C6_Witness ==
  /\ ret.op = "fromDots" /\ ret.arg.t = "string"
  /\ Len(ret.arg.s) = 12 /\ ret.arg.s[5] = "x" /\ ret.arg.s[6] = "1"
  /\ thrown = "Invalid dot character: x. Use ● or ○"

\* C7: for an index in 1..1024 the first character of toBinary() is '0' and
\* the first character of toDots() is the empty dot.
C7_LeadingBit ==
  (inst.live /\ IsIndex(inst.index)) =>
    /\ ret.op = "toBinary" => (thrown = NoError /\ ret.value.s[1] = "0")
    /\ ret.op = "toDots" => (thrown = NoError /\ ret.value.s[1] = EMPTY)
    /\ inst._binary.t = "string" => inst._binary.s[1] = "0"
    /\ inst._dots.t = "string" => inst._dots.s[1] = EMPTY

C7_Witness ==
  /\ inst.live /\ inst.index = JSNum(1024) /\ ret.op = "toDots"
  /\ ret.value.s[1] = EMPTY /\ ret.value.s[2] = FILLED

\* C8: the error of validateBinary is that of the first check that fails, in
\* the order: non-empty string, length 12, characters 0/1, first bit, range.
C8_FirstFailingCheck ==
  result.returned =>
    IF NotNonEmptyString(binary)
    THEN result.error = ErrorString("Binary must be a non-empty string")
    ELSE IF WrongLength(binary)
    THEN result.error =
           ErrorString("Binary must be 12 bits long, got " \o ToString(Len(binary.s)))
    ELSE IF NonBinaryCharacter(binary)
    THEN result.error = ErrorString("Binary string must contain only 0 and 1")
    ELSE IF FirstBitSet(binary)
    THEN result.error = ErrorString("First bit must be 0 for SLIP39")
    ELSE IF OutOfRange(binary)
    THEN result.error = ErrorString(RangeMessage(WeightSum(binary.s, "1", 1)))
    ELSE result.error = ErrorNull

C8_Witness ==
  /\ result.returned /\ binary.t = "string"
  /\ WrongLength(binary) /\ NonBinaryCharacter(binary) /\ FirstBitSet(binary)
  /\ result.error = ErrorString("Binary must be 12 bits long, got 13")

C10_NeverThrows ==
  /\ result.thrown = NoError
  /\ result.returned =>
       /\ result.isValid \in BOOLEAN
       /\ result.error.t \in {"null", "string"}
       /\ result.index.t \in {"null", "number"}

C10_Witness ==
  /\ result.returned /\ binary = JSNull /\ ~result.isValid
  /\ result.index = JSNull

\* C11: for an index in 1..1024, toBinary() is a string of exactly 12
\* characters '0'/'1' whose base-2 value is the index.
C11_BinaryOfIndex ==
  (inst.live /\ IsIndex(inst.index) /\ ret.op = "toBinary") =>
    /\ thrown = NoError /\ ret.value.t = "string"
    /\ Len(ret.value.s) = 12
    /\ \A i \in 1..12 : ret.value.s[i] \in {"0", "1"}
    /\ WeightSum(ret.value.s, "1", 1) = inst.index.n

C11_Witness ==
  /\ inst.live /\ inst.index = JSNum(1023) /\ ret.op = "toBinary"
  /\ ret.value = JSStr(<<"0", "0", "1", "1", "1", "1", "1", "1", "1", "1", "1", "1">>)

\* bit i (0 = most significant of 12) of the integer n
BitAt(n, i) == (n \div Pow2(11 - i)) % 2

\* C12: for an index in 1..1024, toDots() and toBitArray() have 12 elements,
\* and at every position i (0 = most significant bit) toDots()[i] is the filled
\* dot iff toBinary()[i] is '1' iff toBitArray()[i] is 1, and the empty dot iff
\* '0' iff 0.
C12_SameBitsInOrder ==
  (inst.live /\ IsIndex(inst.index) /\ ret.op \in {"toBinary", "toDots", "toBitArray"}) =>
    /\ thrown = NoError
    /\ Len(ret.value.s) = 12
    /\ \A i \in 0..11 :
         LET bit == BitAt(inst.index.n, i)
             elem == ret.value.s[i + 1] IN
         CASE ret.op = "toBinary"   -> (elem = "1" <=> bit = 1) /\ (elem = "0" <=> bit = 0)
           [] ret.op = "toDots"     -> (elem = FILLED <=> bit = 1) /\ (elem = EMPTY <=> bit = 0)
           [] ret.op = "toBitArray" ->
                (elem = JSNum(1) <=> bit = 1) /\ (elem = JSNum(0) <=> bit = 0)
    /\ ret.op = "toBinary" => ret.value.t = "string"
    /\ ret.op = "toDots" => ret.value.t = "string"
    /\ ret.op = "toBitArray" => ret.value.t = "array"

C12_Witness ==
  /\ inst.live /\ inst.index = JSNum(754) /\ ret.op = "toBitArray"
  /\ ret.value.s[3] = JSNum(1) /\ ret.value.s[4] = JSNum(0)
  /\ inst._binary.s[3] = "1" /\ inst._binary.s[4] = "0"

\* C13: for an index in 1..1024, toColumns() is three strings of four symbols
\* whose concatenation is toDots(), and the weights 2048..1 at the filled
\* places add up to the index.
C13_ColumnsPartition ==
  (inst.live /\ IsIndex(inst.index) /\ ret.op = "toColumns") =>
    /\ thrown = NoError /\ ret.value.t = "array"
    /\ Len(ret.value.s) = 3
    /\ \A c \in 1..3 : ret.value.s[c].t = "string" /\ Len(ret.value.s[c].s) = 4
    /\ LET all == ret.value.s[1].s \o ret.value.s[2].s \o ret.value.s[3].s IN
         /\ all = inst._dots.s
         /\ all = toDots(inst).value.s
         /\ WeightSum(all, FILLED, 1) = inst.index.n

C13_Witness ==
  /\ inst.live /\ inst.index = JSNum(1024) /\ ret.op = "toColumns"
  /\ ret.value.s[1] = JSStr(<<EMPTY, FILLED, EMPTY, EMPTY>>)
  /\ ret.value.s[3] = JSStr(<<EMPTY, EMPTY, EMPTY, EMPTY>>)

\* C14: index 15 gives binary 000000001111, the dots of it and the columns
\* 0000 | 0000 | 1111; index 754 gives binary 001011110010, the dots of it and
\* the columns 0010 | 1111 | 0010 (1 the filled dot, 0 the empty one).
C14_ReferenceValues ==
  LET E == EMPTY
      F == FILLED IN
  /\ (inst.live /\ inst.index = JSNum(15)) =>
       /\ ret.op = "toBinary" =>
            ret.value = JSStr(<<"0", "0", "0", "0", "0", "0", "0", "0", "1", "1", "1", "1">>)
       /\ ret.op = "toDots" => ret.value = JSStr(<<E, E, E, E, E, E, E, E, F, F, F, F>>)
       /\ ret.op = "toColumns" =>
            ret.value = JSArray(<<JSStr(<<E, E, E, E>>), JSStr(<<E, E, E, E>>),
                                  JSStr(<<F, F, F, F>>)>>)
  /\ (inst.live /\ inst.index = JSNum(754)) =>
       /\ ret.op = "toBinary" =>
            ret.value = JSStr(<<"0", "0", "1", "0", "1", "1", "1", "1", "0", "0", "1", "0">>)
       /\ ret.op = "toDots" => ret.value = JSStr(<<E, E, F, E, F, F, F, F, E, E, F, E>>)
       /\ ret.op = "toColumns" =>
            ret.value = JSArray(<<JSStr(<<E, E, F, E>>), JSStr(<<F, F, F, F>>),
                                  JSStr(<<E, E, F, E>>)>>)

C14_Witness ==
  /\ inst.live /\ inst.index = JSNum(754) /\ ret.op = "toColumns"
  /\ ret.value.t = "array" /\ ret.value.s[2] = JSStr(<<FILLED, FILLED, FILLED, FILLED>>)

\* the object as the constructor left it, nothing cached
Fresh(this) == [this EXCEPT !._binary = JSNull, !._dots = JSNull, !._columns = JSNull]

\* C15: whatever accessors were called before on an object, and in whatever
\* order, the value an accessor returns is the one computed from the index
\* alone, and a cached field that is set holds the value computed from the
\* index alone.
C15_CachesAgreeWithIndex ==
  inst.live =>
    /\ inst._binary.t # "null" => inst._binary = toBinary(Fresh(inst)).value
    /\ inst._dots.t # "null" => inst._dots = toDots(Fresh(inst)).value
    /\ inst._columns.t # "null" => inst._columns = toColumns(Fresh(inst)).value
    /\ ret.op = "toBinary" =>
         thrown = toBinary(Fresh(inst)).thrown /\ ret.value = toBinary(Fresh(inst)).value
    /\ ret.op = "toBitArray" =>
         thrown = toBitArray(Fresh(inst)).thrown /\ ret.value = toBitArray(Fresh(inst)).value
    /\ ret.op = "toDots" =>
         thrown = toDots(Fresh(inst)).thrown /\ ret.value = toDots(Fresh(inst)).value
    /\ ret.op = "toColumns" =>
         thrown = toColumns(Fresh(inst)).thrown /\ ret.value = toColumns(Fresh(inst)).value
    /\ ret.op = "toDisplayString" =>
         /\ thrown = toDisplayString(Fresh(inst)).thrown
         /\ ret.value = toDisplayString(Fresh(inst)).value

C15_Witness ==
  /\ inst.live /\ inst.index = JSNum(754) /\ ret.op = "toDots"
  /\ inst._binary.t = "string" /\ inst._dots.t = "string" /\ inst._columns.t = "array"
  /\ ret.value = inst._dots

\* a and b are the same string up to the case of their letters
SameIgnoringCase(a, b) ==
  /\ Len(a) = Len(b)
  /\ \A i \in 1..Len(a) : a[i] = b[i] \/ ToUpperOf(a[i]) = b[i] \/ a[i] = ToUpperOf(b[i])

\* the wordlist is one of the data model: its keys are the decimal numerals of
\* distinct integers in 1..1024 and its words distinct lower-case strings
IsNumeral(key) ==
  key # <<>> /\ key[1] # "0" /\ \A i \in 1..Len(key) : key[i] \in Digits
WellFormedWordlist(w) ==
  /\ w.t = "object"
  /\ \A i \in 1..Len(w.entries) :
       /\ IsNumeral(w.entries[i].key) /\ DecimalValue(w.entries[i].key) \in 1..1024
       /\ w.entries[i].word.t = "string"
       /\ w.entries[i].word.s = ToLowerCase(w.entries[i].word.s)
  /\ \A i, j \in 1..Len(w.entries) :
       i # j => /\ w.entries[i].word # w.entries[j].word
                /\ w.entries[i].key # w.entries[j].key

\* the entries of w whose word is s up to case
EntriesOf(w, s) ==
  {i \in 1..Len(w.entries) :
     w.entries[i].word.t = "string" /\ SameIgnoringCase(w.entries[i].word.s, s)}

NotFound(word) ==
  Exception("Error", "Word \"" \o StringOf(word) \o "\" not found in SLIP39 wordlist")

\* C16: with a wordlist of the data model, convertWordToDots of a string that
\* is, up to case, no word of the list throws 'Word "<word>" not found in
\* SLIP39 wordlist' with the word as given, and of a string that is a word of
\* the list returns the index of that word.
C16_NotFoundOrIndex ==
  (output.op = "convertWordToDots" /\ output.arg.t = "string"
     /\ WellFormedWordlist(converter.wordlist)) =>
    LET hits == EntriesOf(converter.wordlist, output.arg.s) IN
    IF hits = {}
    THEN output.thrown = NotFound(output.arg.s)
    ELSE /\ output.thrown = NoException
         /\ \E i \in hits :
              output.value.index = JSNum(DecimalValue(converter.wordlist.entries[i].key))

\* c is the conversion result of an integer index in 1..1024
ValidConversion(c) ==
  /\ IsIndex(c.index)
  /\ c.binary = JSStr(Symbols(c.index.n, "1", "0"))
  /\ c.dots = JSStr(Symbols(c.index.n, FILLED, EMPTY))
  /\ c.columns = JSArray(<<JSStr(SubSeq(Symbols(c.index.n, FILLED, EMPTY), 1, 4)),
                           JSStr(SubSeq(Symbols(c.index.n, FILLED, EMPTY), 5, 8)),
                           JSStr(SubSeq(Symbols(c.index.n, FILLED, EMPTY), 9, 12))>>)

\* C17: whatever the wordlist and the word, a result that convertWordToDots
\* returns, and every element of the patterns convertWithValidation returns,
\* has an integer index in 1..1024 with the binary, dots and columns of it.
C17_ResultsAreValid ==
  /\ (output.op = "convertWordToDots" /\ output.thrown = NoException) =>
       ValidConversion(output.value)
  /\ (output.op = "convertWithValidation" /\ output.thrown = NoException) =>
       \A i \in 1..Len(output.value.patterns) : ValidConversion(output.value.patterns[i])

FailingPlaces(this, words) ==
  {i \in 1..Len(words) : convertWordToDots(this, words[i]).thrown # NoException}

\* the places of the list words whose element is no word of the wordlist w
UnknownPlaces(w, words) ==
  {i \in 1..Len(words) : words[i].t # "string" \/ EntriesOf(w, words[i].s) = {}}

\* C19: convertWithValidation of a list of N words goes through all of them:
\* wordCount = N, patterns and words are as long as each other, patterns and
\* errors together have N elements, isValid iff errors is empty, errors has
\* one entry for each failing word with its 1-based position; and with a
\* wordlist of the data model and exactly one unknown word, at place k, the
\* result has isValid = false, one error, of position k, and N - 1 patterns.
C19_NoShortCircuit ==
  (output.op = "convertWithValidation" /\ output.arg.t = "array") =>
    LET words == output.arg.s
        N == Len(words)
        r == output.value
        failing == FailingPlaces(converter, words)
        unknown == UnknownPlaces(converter.wordlist, words) IN
    /\ output.thrown = NoException
    /\ r.wordCount = N
    /\ Len(r.patterns) = Len(r.words)
    /\ Len(r.patterns) + Len(r.errors) = N
    /\ r.isValid <=> r.errors = <<>>
    /\ Len(r.errors) = Cardinality(failing)
    /\ \A k \in failing : \E e \in 1..Len(r.errors) :
         r.errors[e].position = k /\ r.errors[e].word = words[k]
    /\ (WellFormedWordlist(converter.wordlist) /\ Cardinality(unknown) = 1) =>
         /\ ~r.isValid
         /\ Len(r.errors) = 1
         /\ r.errors[1].position \in unknown
         /\ Len(r.patterns) = N - 1

\* C20 as claimed: convertWithValidation throws for no argument.
C20_NeverThrows ==
  output.op = "convertWithValidation" => output.thrown = NoException

\* C20 as amended: convertWithValidation throws for no string and no list,
\* whatever the words or elements are, and reports the failures in isValid
\* and errors; for an argument that is neither it throws a TypeError.
C20_ThrowsOnlyForOtherValues ==
  output.op = "convertWithValidation" =>
    IF output.arg.t \in {"string", "array"}
    THEN /\ output.thrown = NoException
         /\ output.value.isValid <=> output.value.errors = <<>>
         /\ output.value.wordCount
              = Len(output.value.patterns) + Len(output.value.errors)
    ELSE output.thrown.name = "TypeError"

C20_Witness ==
  /\ output.op = "convertWithValidation" /\ output.thrown = NoException
  /\ output.arg = JSArray(<<JSStr(NOPE), JSNum(5), JSStr(ACADEMIC)>>)
  /\ ~output.value.isValid /\ Len(output.value.errors) = 2
  /\ output.value.errors[2].error = "word.toLowerCase is not a function"

\* the maximal runs of characters of s that are no whitespace, in order:
\* a run starts at a character that follows whitespace or nothing and ends
\* before the next whitespace
RunStarts(s) ==
  {i \in 1..Len(s) : s[i] \notin Whitespace /\ (i = 1 \/ s[i - 1] \in Whitespace)}
RunEnd(s, i) ==
  CHOOSE j \in i..Len(s) :
    /\ \A k \in i..j : s[k] \notin Whitespace
    /\ j = Len(s) \/ s[j + 1] \in Whitespace
WordsOf(s) ==
  LET starts == RunStarts(s) IN
  [n \in 1..Cardinality(starts) |->
     LET i == CHOOSE x \in starts : Cardinality({y \in starts : y < x}) = n - 1 IN
     JSStr(SubSeq(s, i, RunEnd(s, i)))]

\* C21: for a string mnemonic convertWithValidation returns what it returns
\* for the list of the whitespace-delimited words of the string: wordCount is
\* the number of these words (0 for an empty or blank string), there is no
\* empty word, and words, patterns and errors are those of the list.
C21_StringAsItsWords ==
  (output.op = "convertWithValidation" /\ output.arg.t = "string") =>
    LET list == WordsOf(output.arg.s) IN
    /\ output.thrown = NoException
    /\ output.value.wordCount = Len(list)
    /\ \A i \in 1..Len(output.value.words) : output.value.words[i].s # <<>>
    /\ \A e \in 1..Len(output.value.errors) : output.value.errors[e].word.s # <<>>
    /\ output.value = convertWithValidation(converter, JSArray(list)).value

\* C22: the constructor throws for a wordlist that is empty or is not one of
\* the data model, and no object has an empty reverse table.
C22_RejectsEmptyOrMalformed ==
  /\ (output.op = "new"
        /\ (~WellFormedWordlist(input.wordlist) \/ input.wordlist.entries = <<>>)) =>
       (output.thrown # NoException /\ ~converter.live)
  /\ converter.live => converter.reverseWordlist # <<>>

\* C23: once the constructor has returned, no call of convertWordToDots or
\* convertWithValidation changes wordlist or reverseWordlist, and what a call
\* throws and returns is what it throws and returns on the object as the
\* constructor left it.
C23_CallsOnlyRead ==
  [][converter.live =>
       LET built == Converter(input.wordlist).this IN
       /\ converter' = converter
       /\ converter' = built
       /\ output'.op = "convertWordToDots" =>
            LET fresh == convertWordToDots(built, output'.arg) IN
            output'.thrown = fresh.thrown /\ output'.value = fresh.value
       /\ output'.op = "convertWithValidation" =>
            LET fresh == convertWithValidation(built, output'.arg) IN
            output'.thrown = fresh.thrown /\ output'.value = fresh.value]_vars

C23_Witness ==
  /\ converter.live /\ converter.reverseWordlist # <<>>
  /\ output.op = "convertWordToDots" /\ output.arg = JSStr(ToUpperAll(ACADEMIC))
  /\ output.thrown = NoException /\ output.value.index = JSNum(1)

\* the words convertWithValidation goes through for the argument a
WordsGiven(a) == IF a.t = "array" THEN a.s ELSE SplitWhitespace(Trim(a.s))

\* C24: the outputs of convertWithValidation keep the order of the input:
\* words are the input words that convertWordToDots does not reject, in input
\* order, patterns[j] is the conversion of words[j]; the positions of errors
\* increase strictly, and each error holds the input word at its position and
\* the message convertWordToDots throws for it.
C24_InputOrder ==
  (output.op = "convertWithValidation" /\ output.thrown = NoException) =>
    LET given == WordsGiven(output.arg)
        r == output.value
        Accepted(w) == convertWordToDots(converter, w).thrown = NoException IN
    /\ r.words = SelectSeq(given, Accepted)
    /\ Len(r.patterns) = Len(r.words)
    /\ \A j \in 1..Len(r.patterns) :
         /\ r.patterns[j].word = r.words[j]
         /\ r.patterns[j] = convertWordToDots(converter, r.words[j]).value
    /\ \A e \in 1..Len(r.errors) :
         /\ r.errors[e].position \in 1..Len(given)
         /\ e > 1 => r.errors[e - 1].position < r.errors[e].position
         /\ r.errors[e].word = given[r.errors[e].position]
         /\ ~Accepted(r.errors[e].word)
         /\ r.errors[e].error = convertWordToDots(converter, r.errors[e].word).thrown.message

C24_Witness ==
  /\ output.op = "convertWithValidation" /\ output.thrown = NoException
  /\ output.arg = JSArray(<<JSStr(NOPE), JSStr(RESULT), JSNum(5)>>)
  /\ output.value.words = <<JSStr(RESULT)>>
  /\ Len(output.value.errors) = 2
  /\ output.value.errors[1].position = 1 /\ output.value.errors[2].position = 3
  /\ output.value.patterns[1].index = JSNum(754)

\* the value the 12 dots of a row encode, the first dot the most significant
RowValue(row) == WeightSum(row.dots, TRUE, 1)

\* the row is all empty and shows '#0'
ShowsNothing(row) == RowValue(row) = 0 /\ row.textContent = "#0"

\* the row encodes v and shows v and the word of v
ShowsWord(row, v) ==
  RowValue(row) = v /\ row.textContent = "#" \o ToString(v) \o " " \o StringOf(WordAt(v))

\* C25: in every state of the page the first dot of each of the 33 rows is
\* empty, whatever clicks, conversions, edits, word-count changes and resets
\* there were.
C25_FirstDotEmpty ==
  app.live => (Len(app.dotRows) = 33 /\ \A r \in 1..Rows : ~app.dotRows[r].dots[1])

C25_Witness ==
  /\ app.live /\ app.loaded
  /\ ShowsWord(app.dotRows[1], 754)
  /\ ShowsWord(app.dotRows[20], 754)
  /\ ShowsWord(app.dotRows[21], 755)
  /\ ~app.dotRows[1].dots[1] /\ ~app.dotRows[21].dots[1]

\* the value of the row with the dot at place toggled
Toggled(row, place) ==
  IF row.dots[place] THEN RowValue(row) - Pow2(RowDots - place)
  ELSE RowValue(row) + Pow2(RowDots - place)

\* C26: with the wordlist loaded, after every handler each row either is all
\* empty and shows '#0' or encodes a value v in 1..1024 and shows '#v' and the
\* word of v; and a click that gives a row the value 0 or a value above 1024
\* leaves that row all empty, showing '#0', and every other row as it was.
C26_RowsConsistent ==
  /\ [](app.live /\ app.loaded =>
          \A r \in 1..Rows :
            \/ ShowsNothing(app.dotRows[r])
            \/ /\ RowValue(app.dotRows[r]) \in 1..1024
               /\ ShowsWord(app.dotRows[r], RowValue(app.dotRows[r])))
  /\ [][\A rowIndex \in ClickRows, dot \in ClickDots :
          (/\ app.live /\ app.loaded
           /\ ~Disabled(Place(dot[1], dot[2])) /\ ~app.dotRows[rowIndex].hidden
           /\ Toggled(app.dotRows[rowIndex], Place(dot[1], dot[2])) \notin 1..1024
           /\ app' = handleDotClick(app, rowIndex, dot[1], dot[2]).this) =>
            /\ ShowsNothing(app'.dotRows[rowIndex])
            /\ \A r \in 1..Rows \ {rowIndex} : app'.dotRows[r] = app.dotRows[r]]_vars

C26_Witness ==
  /\ app.live /\ app.loaded
  /\ ShowsWord(app.dotRows[1], 1)
  /\ ShowsWord(app.dotRows[2], 1024)
  /\ ShowsNothing(app.dotRows[21]) /\ ~app.dotRows[21].hidden
  /\ app.mnemonicInput # <<>>

\* the words of the loaded wordlist
KnownWords == {WordAt(v) : v \in 1..1024}

\* the words of the text in #mnemonicInput, in lower case
TypedWordsOf == [value \in MnemonicValues \cup {<<>>} |-> WordsOf(ToLowerCase(value))]
TypedWords(this) == TypedWordsOf[this.mnemonicInput]

\* the texts all of whose words are words of the wordlist
KnownTexts ==
  {value \in DOMAIN TypedWordsOf :
     \A i \in 1..Len(TypedWordsOf[value]) : TypedWordsOf[value][i].s \in KnownWords}

\* the step is a run of convertMnemonicToDots that changed the page
ConversionStep ==
  /\ app.live
  /\ app'.mnemonicInput = app.mnemonicInput
  /\ app'.currentWordCount = app.currentWordCount
  /\ app'.network = app.network
  /\ app' = convertMnemonicToDots(app)

\* the lines of the error container for the words from place i on
RECURSIVE ExpectedDetails(_, _)
ExpectedDetails(words, i) ==
  IF i > Len(words) THEN <<>>
  ELSE (IF words[i].s \in KnownWords THEN <<>>
        ELSE <<"Position " \o ToString(i) \o ": Word \"" \o StringOf(words[i].s)
                 \o "\" not found in SLIP39 wordlist (word: \"" \o StringOf(words[i].s)
                 \o "\")">>)
         \o ExpectedDetails(words, i + 1)

RECURSIVE JoinLines(_)
JoinLines(lines) ==
  IF lines = <<>> THEN ""
  ELSE IF Len(lines) = 1 THEN lines[1]
  ELSE lines[1] \o "<br>" \o JoinLines(Tail(lines))

\* C27: a run of convertMnemonicToDots on a text with at least one word that
\* is not in the wordlist makes the error container visible, with every error
\* listed: position, message and word; and it changes no dot and no word
\* display.
C27_ErrorsShownGridKept ==
  [][(/\ app.live /\ app.loaded
      /\ app.mnemonicInput \notin KnownTexts
      /\ ConversionStep) =>
       LET details == ExpectedDetails(TypedWords(app), 1) IN
       /\ app'.errorContainer.exists /\ ~app'.errorContainer.hidden
       /\ app'.errorContainer.innerHTML =
            "\n      <h3>Validation Failed</h3>\n      <p>Found "
              \o ToString(Len(details)) \o " validation "
              \o (IF Len(details) = 1 THEN "error" ELSE "errors")
              \o " in mnemonic input<br><br>" \o JoinLines(details) \o "</p>\n    "
       /\ app'.dotRows = app.dotRows]_vars

\* C28: after a run of convertMnemonicToDots on N words of the wordlist,
\* every row i <= min(N, currentWordCount) encodes the index of the i-th word
\* and shows '#index word', and every other of the 33 rows is all empty and
\* shows '#0', whatever the rows held before.
C28_RowsOfWords ==
  (/\ app.live /\ app.loaded
   /\ app.mnemonicInput \in KnownTexts /\ TypedWords(app) # <<>>) =>
    \A after \in {convertMnemonicToDots(app).dotRows} :
      LET words == TypedWords(app)
          shown == IF Len(words) < app.currentWordCount THEN Len(words)
                   ELSE app.currentWordCount IN
      \A r \in 1..Rows :
        IF r <= shown
        THEN /\ RowValue(after[r]) \in 1..1024
             /\ WordAt(RowValue(after[r])) = words[r].s
             /\ ShowsWord(after[r], RowValue(after[r]))
        ELSE ShowsNothing(after[r])

C28_Witness ==
  /\ app.live /\ app.loaded /\ app.currentWordCount = 20
  /\ Len(TypedWords(app)) = LongCount
  /\ \A r \in 1..20 : ShowsWord(app.dotRows[r], 754)
  /\ \A r \in 21..Rows : ShowsNothing(app.dotRows[r])

C30_ErrorStaysUntilReset ==
  [][(app.live /\ app.errorContainer.exists /\ ~app.errorContainer.hidden) =>
       /\ \/ app'.errorContainer = app.errorContainer
          \/ ~(\/ DotClick
               \/ MnemonicInput
               \/ WordCountChange
               \/ app.loaded /\ app.mnemonicInput \in KnownTexts /\ ConversionStep)
       /\ app'.errorContainer.hidden => app' = clearAll(app)]_vars

C30_Witness ==
  /\ app.live /\ app.loaded
  /\ app.errorContainer.exists /\ ~app.errorContainer.hidden
  /\ app.errorContainer.innerHTML # ""
  /\ ShowsWord(app.dotRows[1], 1) /\ ShowsWord(app.dotRows[2], 1024)
  /\ Len(TypedWords(app)) = 2

====
